---- MODULE Spec2Model ----
(***************************************************************************)
(* A model of the EdenFS inode core (eden/fs/inodes): the load state       *)
(* machine of TreeInode children, the materialization / overlay            *)
(* discipline, and the checkout engine of TreeInode and EdenMount.         *)
(*                                                                         *)
(* State that the C++ code guards with one lock acquisition is changed by  *)
(* one action; everything the code does between two acquisitions is a      *)
(* separate action, so that other threads interleave exactly where the     *)
(* code lets them.                                                         *)
(***************************************************************************)
EXTENDS Integers, Sequences, FiniteSets, TLC

(***************************************************************************)
(* PART I.  Loading a child inode                                          *)
(* TreeInode::getOrFindChild, loadChildInode, registerInodeLoadComplete,   *)
(* inodeLoadComplete, startLoadingInode; the InodeMap they talk to.        *)
(***************************************************************************)

\* Bounds of the load model.
MaxThreads == 3
MaxLoads == 2
MaxCalls == 3

Threads == 1..MaxThreads

\* The children of the one parent directory of the load model: a file, a
\* directory that is unmaterialized (its Tree comes from the ObjectStore) and
\* a directory that is materialized (its contents come from the Overlay).
LNames == {"f", "d", "m"}

\* The errors a load can end with (two, so that "the same error" says
\* something).
LoadErrors == {"EIO", "ENOENT"}

NoInode == 0

VARIABLES
  lentries,   \* contents_.entries of the parent: name -> DirEntry
  loading,    \* InodeMap: inode number -> Loading entry (load id, promises)
  futures,    \* load futures handed to registerInodeLoadComplete, not yet ready
  wake,       \* promises taken from the InodeMap, not yet fulfilled
  lpc,        \* what each caller is doing
  lres,       \* what each caller's future was completed with
  lwait,      \* the load (id, inode number) each caller's promise was attached to,
              \* and whether the caller threw with the contents lock held
  nloads,     \* loads started so far (also names the inode object a load makes)
  ncalls      \* calls made so far

loadVars == <<lentries, loading, futures, wake, lpc, lres, lwait, nloads, ncalls>>

\* The state of the mount model (Part II).
VARIABLES
  checkoutInProgress,        \* ParentCommitState::checkoutInProgress
  workingCopyParentRootId,   \* ParentCommitState::workingCopyParentRootId
  checkedOutRootId,          \* ParentCommitState::checkedOutRootId
  renameMutex,               \* the client holding EdenMount::renameMutex_, or 0
  inodeTreeAt,               \* what the inode tree was last checked out to
  mpc,                       \* where each client is in its operation
  mres,                      \* how each client's last operation ended
  oldParent,                 \* the oldParent local of each client
  snapshotHash,              \* the target of each client's operation
  mops                       \* operations started so far

mountVars == <<checkoutInProgress, workingCopyParentRootId, checkedOutRootId,
               renameMutex, inodeTreeAt, mpc, mres, oldParent, snapshotHash,
               mops>>

\* The state of the inode tree model (Part III).
VARIABLES
  dirs,        \* loaded TreeInodes: inode number -> contents_ and location
  overlay,     \* Overlay directory data: inode number -> saved entries
  ovFiles,     \* the Overlay's files: inode number |-> contents
  crashPoints, \* the Overlay states the last step went through on its way
  nextIno,     \* Overlay::allocateInodeNumber
  uop,         \* the file system operation in flight, and how far it is
  ck,          \* the checkout in flight, and how far it is
  conflicts,   \* conflicts and errors recorded by the checkout in flight
  journal,     \* the Journal: the records appended so far
  channel,     \* the FUSE channel: the invalidations queued, not yet sent
  nops         \* operations and checkouts started so far

treeVars == <<dirs, overlay, ovFiles, crashPoints, nextIno, uop, ck, conflicts,
              journal, channel, nops>>

\* The state of the diff model (Part IV).
VARIABLES
  df,          \* the diff in flight: its commit, token, and directories
  callbacks    \* the DiffCallback calls made so far: kind and path

diffVars == <<df, callbacks>>

\* The state of the lock model (Part V).
VARIABLES
  itree,       \* the TreeInodes: inode number -> location and contents_.entries
  held,        \* the locks each thread holds, in the order it acquired them
  lop,         \* the operation each thread runs, and how far it is
  lnops        \* operations started so far

lockVars == <<itree, held, lop, lnops>>

\* The state of the readdir model (Part VI).
VARIABLES
  rdir,        \* contents_.entries of the directory read: name -> inode number
  rd           \* the directory stream: offset, entries returned, end reached

readVars == <<rdir, rd>>

\* The result of the last TreeInode::getOrFindChild call (Part VII).
VARIABLES found

findVars == <<found>>

\* The state of the channel model (Part VIII).
VARIABLES
  mountState,      \* EdenMount::state_
  mountPromise,    \* MountingUnmountingState::channelMountPromise
  unmountPromise,  \* MountingUnmountingState::channelUnmountPromise
  kernel,          \* the mount point: mounted or not, mount and umount calls
  sc,              \* the startChannel or takeoverFuse call, and how far it is
  um,              \* the unmount calls, and how far each is
  sd               \* shutdown and destroy, and how far they are

chanVars == <<mountState, mountPromise, unmountPromise, kernel, sc, um, sd>>

\* The state of the directory-removal model (Part IX).
VARIABLES
  dirEntry,    \* the parent's contents_.entries holds the entry of the directory
  rmDir,       \* the directory: its entries, unlinked or not, its contents lock
  rmv,         \* the removal of the directory, and how far it is
  crt          \* the creates and mkdirs into the directory, and how far each is

rmVars == <<dirEntry, rmDir, rmv, crt>>

\* What the actions of one part leave alone.
notLoadVars == <<mountVars, treeVars, diffVars, lockVars, readVars, findVars, chanVars,
    rmVars>>
notMountVars == <<loadVars, treeVars, diffVars, lockVars, readVars, findVars, chanVars,
    rmVars>>
notTreeVars == <<loadVars, mpc, mres, oldParent, snapshotHash, mops, inodeTreeAt,
                 diffVars, lockVars, readVars, findVars, chanVars, rmVars>>
notDiffVars == <<loadVars, mountVars, lockVars, readVars, findVars, chanVars,
    rmVars>>
notLockVars == <<loadVars, mountVars, treeVars, diffVars, readVars, findVars, chanVars,
    rmVars>>
notChanVars == <<loadVars, mountVars, treeVars, diffVars, lockVars, readVars,
                 findVars, rmVars>>
notRmVars == <<loadVars, mountVars, treeVars, diffVars, lockVars, readVars,
               findVars, chanVars>>
notReadVars == <<loadVars, mountVars, treeVars, diffVars, lockVars, findVars, chanVars,
    rmVars>>
parentState == <<checkoutInProgress, workingCopyParentRootId, checkedOutRootId>>

NoLoad == [id |-> 0, ino |-> 0, threw |-> FALSE]
NoResult == [kind |-> "none", val |-> 0, err |-> ""]
InodeResult(obj) == [kind |-> "inode", val |-> obj, err |-> ""]
ErrorResult(e) == [kind |-> "error", val |-> 0, err |-> e]
\* InodeOrTreeOrEntry holding a Tree or an UnmaterializedUnloadedBlobDirEntry.
StoreResult(ino) == [kind |-> "store", val |-> ino, err |-> ""]

LoadInit ==
  /\ lentries = [n \in LNames |->
       [ino |-> (CASE n = "f" -> 2 [] n = "d" -> 3 [] OTHER -> 4),
        isDir |-> (n # "f"),
        mat |-> (n = "m"),
        inode |-> NoInode]]
  /\ loading = <<>>
  /\ futures = {}
  /\ wake = {}
  /\ lpc = [t \in Threads |-> "idle"]
  /\ lres = [t \in Threads |-> NoResult]
  /\ lwait = [t \in Threads |-> NoLoad]
  /\ nloads = 0
  /\ ncalls = 0

\* InodeMap::shouldLoadChild: true iff no load of this inode number is in
\* progress; either way the caller's promise joins the Loading entry.
shouldLoadChild(ino) == ino \notin DOMAIN loading

\* The Loading entries after shouldLoadChild attached promise p.
attachPromise(ino, p) ==
  IF ino \in DOMAIN loading
    THEN [loading EXCEPT ![ino].promises = Append(@, p)]
    ELSE [i \in DOMAIN loading \cup {ino} |->
           IF i = ino THEN [id |-> nloads + 1, promises |-> <<p>>]
           ELSE loading[i]]

\* The load a promise attached to inode number ino now waits for.
loadIdOf(ino) == IF ino \in DOMAIN loading THEN loading[ino].id ELSE nloads + 1

\* InodeMap::inodeLoadComplete / inodeLoadFailed: the Loading entry is gone.
dropLoading(tbl, ino) == [i \in DOMAIN tbl \ {ino} |-> tbl[i]]

\* The promises of a Loading entry, as (caller, inode object) pairs to wake.
promisesOf(tbl, ino, obj) ==
  IF ino \in DOMAIN tbl
    THEN {[t |-> tbl[ino].promises[k], obj |-> obj] :
            k \in 1..Len(tbl[ino].promises)}
    ELSE {}

\* TreeInode::startLoadingInode: a file inode is made at once; a materialized
\* directory is read from the Overlay at once (or the read throws); an
\* unmaterialized directory waits for ObjectStore::getTree unless the Tree is
\* at hand.
startLoadingInode(e) ==
  IF ~e.isDir THEN {[now |-> TRUE, out |-> {"value"}]}
  ELSE IF e.mat THEN {[now |-> TRUE, out |-> {"value"}],
                      [now |-> FALSE, out |-> {"error"}]}
  ELSE {[now |-> TRUE, out |-> {"value"}],
        [now |-> FALSE, out |-> {"value", "error"}]}

\* getOrFindChild line 303: a load is started only when the InodeMap says so.
startLoadAlways(ino) == TRUE
startLoad(ino) == shouldLoadChild(ino)

\* getOrFindChild lines 308-320: a future that is ready with a value is
\* completed under the contents lock; any other goes to
\* registerInodeLoadComplete after the lock is released.
completeUnderLock(o) == o.now /\ o.out = {"value"}

\* TreeInode::getOrFindChild(name, context, loadInodes) by caller t.
getOrFindChild(t, n, loadInodes) ==
  LET e == lentries[n] IN
  /\ n \in DOMAIN lentries
  /\ lpc[t] = "idle"
  /\ ncalls < MaxCalls
  /\ ncalls' = ncalls + 1
  /\ IF e.inode # NoInode THEN
       \* already loaded: return the inode
       /\ lres' = [lres EXCEPT ![t] = InodeResult(e.inode)]
       /\ lwait' = [lwait EXCEPT ![t] = NoLoad]
       /\ UNCHANGED <<lentries, loading, futures, wake, lpc, nloads>>
     ELSE IF ~loadInodes /\ ~e.mat THEN
       \* not loaded, unmaterialized, caller accepts a non-inode result:
       \* answer from the ObjectStore
       /\ lres' = [lres EXCEPT ![t] = StoreResult(e.ino)]
       /\ lwait' = [lwait EXCEPT ![t] = NoLoad]
       /\ UNCHANGED <<lentries, loading, futures, wake, lpc, nloads>>
     ELSE
       LET attached == attachPromise(e.ino, t) IN
       /\ lres' = [lres EXCEPT ![t] = NoResult]
       /\ lwait' = [lwait EXCEPT ![t] = [id |-> loadIdOf(e.ino), ino |-> e.ino,
                                     threw |-> FALSE]]
       /\ lpc' = [lpc EXCEPT ![t] = "waiting"]
       /\ IF startLoad(e.ino) THEN
            /\ nloads < MaxLoads
            /\ nloads' = nloads + 1
            /\ \E o \in startLoadingInode(e) :
                 IF completeUnderLock(o) THEN
                   /\ lentries' = [lentries EXCEPT ![n].inode = nloads + 1]
                   /\ wake' = wake \cup promisesOf(attached, e.ino, nloads + 1)
                   /\ loading' = dropLoading(attached, e.ino)
                   /\ UNCHANGED futures
                 ELSE
                   /\ futures' = futures \cup
                        {[ino |-> e.ino, name |-> n, id |-> nloads + 1,
                          out |-> o.out]}
                   /\ loading' = attached
                   /\ UNCHANGED <<lentries, wake>>
          ELSE
            /\ loading' = attached
            /\ UNCHANGED <<lentries, futures, wake, nloads>>
  /\ UNCHANGED notLoadVars

\* TreeInode::inodeLoadComplete(childName, childInode): link the inode into
\* the entry under the contents lock, take the promises from the InodeMap;
\* the promises are fulfilled after the lock is released (promiseSetValue).
\* An entry that is gone makes it throw, which registerInodeLoadComplete's
\* thenError turns into InodeMap::inodeLoadFailed.
takePromisesWithoutLinking(f) ==
  /\ wake' = wake \cup promisesOf(loading, f.ino, f.id)
  /\ loading' = dropLoading(loading, f.ino)
  /\ UNCHANGED <<lentries, lpc, lres>>
linkThenTakePromises(f) ==
  /\ lentries' = [lentries EXCEPT ![f.name].inode = f.id]
  /\ wake' = wake \cup promisesOf(loading, f.ino, f.id)
  /\ loading' = dropLoading(loading, f.ino)
  /\ UNCHANGED <<lpc, lres>>

\* InodeMap::inodeLoadFailed(number, error): every promise of the Loading
\* entry gets the error and the entry is forgotten.
inodeLoadFailed(ino, err) ==
  LET ps == {p.t : p \in promisesOf(loading, ino, 0)} IN
  /\ lres' = [t \in Threads |-> IF t \in ps THEN ErrorResult(err) ELSE lres[t]]
  /\ lpc' = [t \in Threads |-> IF t \in ps THEN "idle" ELSE lpc[t]]
  /\ loading' = dropLoading(loading, ino)
  /\ UNCHANGED <<lentries, wake>>

\* The thenValue callback of registerInodeLoadComplete.
inodeLoadComplete(f) ==
  IF f.name \in DOMAIN lentries
    THEN linkThenTakePromises(f)
    ELSE inodeLoadFailed(f.ino, "ENOENT")

\* The thenError callback of registerInodeLoadComplete.
errorDropped(f, err) == UNCHANGED <<lentries, loading, wake, lpc, lres>>
loadErrorHandler(f, err) == inodeLoadFailed(f.ino, err)

\* TreeInode::registerInodeLoadComplete: the load future becomes ready and
\* one of the two callbacks runs.
registerInodeLoadComplete ==
  \E f \in futures :
    /\ futures' = futures \ {f}
    /\ \/ /\ "value" \in f.out
          /\ inodeLoadComplete(f)
       \/ /\ "error" \in f.out
          /\ \E err \in LoadErrors : loadErrorHandler(f, err)
    /\ UNCHANGED <<lwait, nloads, ncalls>>
    /\ UNCHANGED notLoadVars

\* promise.setValue(inodePtr), after the contents lock was released.
promiseSetValue ==
  \E w \in wake :
    /\ wake' = wake \ {w}
    /\ lres' = [lres EXCEPT ![w.t] = InodeResult(w.obj)]
    /\ lpc' = [lpc EXCEPT ![w.t] = "idle"]
    /\ UNCHANGED <<lentries, loading, futures, lwait, nloads, ncalls>>
    /\ UNCHANGED notLoadVars

\* unloadChildrenIf: an inode nobody references is unloaded; its entry stays.
unloadInode ==
  \E n \in DOMAIN lentries :
    /\ lentries[n].inode # NoInode
    /\ \A w \in wake : w.obj # lentries[n].inode
    /\ lentries' = [lentries EXCEPT ![n].inode = NoInode]
    /\ UNCHANGED <<loading, futures, wake, lpc, lres, lwait, nloads, ncalls>>
    /\ UNCHANGED notLoadVars

\* InodeMap::lookupInode(number) for an inode that is not loaded calls
\* TreeInode::loadChildInode(name, number).
loadChildInode(t, n) ==
  LET e == lentries[n] IN
  /\ n \in DOMAIN lentries
  /\ lpc[t] = "idle"
  /\ ncalls < MaxCalls
  /\ ncalls' = ncalls + 1
  /\ e.inode = NoInode
  /\ lres' = [lres EXCEPT ![t] = NoResult]
  /\ lwait' = [lwait EXCEPT ![t] = [id |-> loadIdOf(e.ino), ino |-> e.ino,
                                     threw |-> FALSE]]
  /\ lpc' = [lpc EXCEPT ![t] = "waiting"]
  /\ loading' = attachPromise(e.ino, t)
  /\ IF shouldLoadChild(e.ino) THEN
       /\ nloads < MaxLoads
       /\ nloads' = nloads + 1
       /\ \E o \in startLoadingInode(e) :
            futures' = futures \cup
              {[ino |-> e.ino, name |-> n, id |-> nloads + 1, out |-> o.out]}
     ELSE UNCHANGED <<futures, nloads>>
  /\ UNCHANGED <<lentries, wake>>
  /\ UNCHANGED notLoadVars

\* ~IncompleteInodeLoad: a pending load whose finish() was not called
\* because of an exception is finished by the destructor.
destroyedUnfinished(load) == {}
destroyIncompleteInodeLoad(load) == {load}

\* TreeInode::loadChildLocked(contents, name, entry, pendingLoads) by a
\* caller that holds the contents lock (checkout, diff, prefetch), up to the
\* end of the caller's pendingLoads: finish() is called on each load after
\* the lock is released, or, when the caller threw with the lock held, by
\* the destructor of the load.
loadChildLocked(t, n, threw) ==
  LET e == lentries[n]
      load == [ino |-> e.ino, name |-> n, id |-> nloads + 1] IN
  /\ n \in DOMAIN lentries
  /\ lpc[t] = "idle"
  /\ ncalls < MaxCalls
  /\ ncalls' = ncalls + 1
  /\ e.inode = NoInode
  /\ lres' = [lres EXCEPT ![t] = NoResult]
  /\ lwait' = [lwait EXCEPT ![t] = [id |-> loadIdOf(e.ino), ino |-> e.ino,
                                     threw |-> threw]]
  /\ lpc' = [lpc EXCEPT ![t] = "waiting"]
  /\ loading' = attachPromise(e.ino, t)
  /\ IF shouldLoadChild(e.ino) THEN
       /\ nloads < MaxLoads
       /\ nloads' = nloads + 1
       /\ \E o \in startLoadingInode(e) :
            futures' = futures \cup
              {[ino |-> l.ino, name |-> l.name, id |-> l.id, out |-> o.out] :
                 l \in IF threw THEN destroyIncompleteInodeLoad(load)
                       ELSE {load}}
     ELSE UNCHANGED <<futures, nloads>>
  /\ UNCHANGED <<lentries, wake>>
  /\ UNCHANGED notLoadVars

\* TreeInode::tryRemoveUnloadedChild(name): an entry without a loaded inode
\* is erased; a load of it that is in flight is not looked at.
tryRemoveUnloadedChild ==
  \E n \in DOMAIN lentries :
    /\ lentries[n].inode = NoInode
    /\ ncalls < MaxCalls
    /\ ncalls' = ncalls + 1
    /\ lentries' = [m \in DOMAIN lentries \ {n} |-> lentries[m]]
    /\ UNCHANGED <<loading, futures, wake, lpc, lres, lwait, nloads>>
    /\ UNCHANGED notLoadVars

LoadNext ==
  \/ \E t \in Threads, n \in LNames, li \in BOOLEAN : getOrFindChild(t, n, li)
  \/ \E t \in Threads, n \in LNames : loadChildInode(t, n)
  \/ \E t \in Threads, n \in LNames, threw \in BOOLEAN : loadChildLocked(t, n, threw)
  \/ registerInodeLoadComplete
  \/ promiseSetValue
  \/ unloadInode
  \/ tryRemoveUnloadedChild

(***************************************************************************)
(* PART II.  The mount's parent state and the operations that run          *)
(* TreeInode::checkout: EdenMount::checkout, EdenMount::setPathObjectId,   *)
(* EdenMount::resetParent.                                                 *)
(***************************************************************************)

\* Bounds of the mount model.
MaxClients == 2
MaxMountOps == 4

Clients == 1..MaxClients
RootIds == {"R1", "R2"}

MountInit ==
  /\ checkoutInProgress = FALSE
  /\ workingCopyParentRootId = "R1"
  /\ checkedOutRootId = "R1"
  /\ renameMutex = 0
  /\ inodeTreeAt = <<"R1">>
  /\ mpc = [c \in Clients |-> "idle"]
  /\ mres = [c \in Clients |-> "none"]
  /\ oldParent = [c \in Clients |-> "R1"]
  /\ snapshotHash = [c \in Clients |-> "R1"]
  /\ mops = 0

\* EdenMount::checkout, lines 1338-1355: under parentState_.wlock() a second
\* checkout is turned away, otherwise the flag is set and the parent read.
checkoutBegin(c, target) ==
  /\ mpc[c] = "idle"
  /\ mops < MaxMountOps
  /\ mops' = mops + 1
  /\ IF checkoutInProgress THEN
       /\ mres' = [mres EXCEPT ![c] = "CHECKOUT_IN_PROGRESS"]
       /\ UNCHANGED <<checkoutInProgress, workingCopyParentRootId,
                      checkedOutRootId, renameMutex, inodeTreeAt, mpc,
                      oldParent, snapshotHash>>
     ELSE
       /\ checkoutInProgress' = TRUE
       /\ oldParent' = [oldParent EXCEPT ![c] = workingCopyParentRootId]
       /\ snapshotHash' = [snapshotHash EXCEPT ![c] = target]
       /\ mpc' = [mpc EXCEPT ![c] = "context"]
       /\ mres' = [mres EXCEPT ![c] = "none"]
       /\ UNCHANGED <<workingCopyParentRootId, checkedOutRootId, renameMutex,
                      inodeTreeAt>>
  /\ UNCHANGED notMountVars

\* EdenMount::checkout, lines 1357-1366: the CheckoutContext is made and
\* setLastCheckoutTime(clock_->getRealtime()) is called.  UnixClock::getRealtime
\* throws std::system_error when clock_gettime fails: the exception leaves
\* EdenMount::checkout before the chain of futures with its ensure block
\* exists.
checkoutContext(c) ==
  /\ mpc[c] = "context"
  /\ \/ /\ mpc' = [mpc EXCEPT ![c] = "getRoots"]
        /\ UNCHANGED mres
     \/ /\ mpc' = [mpc EXCEPT ![c] = "idle"]
        /\ mres' = [mres EXCEPT ![c] = "error"]
  /\ UNCHANGED <<checkoutInProgress, workingCopyParentRootId,
                 checkedOutRootId, renameMutex, inodeTreeAt, oldParent,
                 snapshotHash, mops>>
  /\ UNCHANGED notMountVars

\* EdenMount::checkout, lines 1369-1414: getRootTree of both commits,
\* waitForPendingNotifications, the journal diff.  A fetch that fails skips
\* to the ensure block.
checkoutGetRoots(c) ==
  /\ mpc[c] = "getRoots"
  /\ \/ /\ mpc' = [mpc EXCEPT ![c] = "start"]
        /\ UNCHANGED mres
     \/ /\ mpc' = [mpc EXCEPT ![c] = "ensure"]
        /\ mres' = [mres EXCEPT ![c] = "error"]
  /\ UNCHANGED <<checkoutInProgress, workingCopyParentRootId,
                 checkedOutRootId, renameMutex, inodeTreeAt, oldParent,
                 snapshotHash, mops>>
  /\ UNCHANGED notMountVars

\* EdenMount::checkout, lines 1421-1454: acquireRenameLock, ctx->start,
\* unloadChildrenUnreferencedByFs.
checkoutStart(c) ==
  /\ mpc[c] = "start"
  /\ renameMutex = 0
  /\ renameMutex' = c
  /\ mpc' = [mpc EXCEPT ![c] = "inodeCheckout"]
  /\ UNCHANGED <<checkoutInProgress, workingCopyParentRootId,
                 checkedOutRootId, inodeTreeAt, mres, oldParent, snapshotHash,
                 mops>>
  /\ UNCHANGED notMountVars

\* EdenMount::checkout, lines 1456-1464: rootInode->checkout(ctx, fromTree,
\* toTree) has run to its end.
checkoutInodeCheckout(c) ==
  /\ mpc[c] = "inodeCheckout"
  /\ inodeTreeAt' = Append(inodeTreeAt, snapshotHash[c])
  /\ mpc' = [mpc EXCEPT ![c] = "finish"]
  /\ UNCHANGED <<checkoutInProgress, workingCopyParentRootId,
                 checkedOutRootId, renameMutex, mres, oldParent, snapshotHash,
                 mops>>
  /\ UNCHANGED notMountVars

\* CheckoutContext::finish(snapshotHash): the parent commit becomes the
\* target and the rename lock is released.
checkoutFinish(c) ==
  /\ mpc[c] = "finish"
  /\ workingCopyParentRootId' = snapshotHash[c]
  /\ checkedOutRootId' = snapshotHash[c]
  /\ renameMutex' = 0
  /\ mpc' = [mpc EXCEPT ![c] = "ensure"]
  /\ mres' = [mres EXCEPT ![c] = "ok"]
  /\ UNCHANGED <<checkoutInProgress, inodeTreeAt, oldParent, snapshotHash,
                 mops>>
  /\ UNCHANGED notMountVars

\* EdenMount::checkout, lines 1471-1477: the ensure block clears the flag.
checkoutEnsure(c) ==
  /\ mpc[c] = "ensure"
  /\ checkoutInProgress' = FALSE
  /\ mpc' = [mpc EXCEPT ![c] = "idle"]
  /\ UNCHANGED <<workingCopyParentRootId, checkedOutRootId, renameMutex,
                 inodeTreeAt, mres, oldParent, snapshotHash, mops>>
  /\ UNCHANGED notMountVars

\* EdenMount::setPathObjectId, lines 652-701: reads the working copy parent,
\* makes a CheckoutContext, looks up the target TreeInode and the Tree.  It
\* neither reads nor sets checkoutInProgress and takes no rename lock.
setPathObjectIdBegin(c, rootId) ==
  /\ mpc[c] = "idle"
  /\ mops < MaxMountOps
  /\ mops' = mops + 1
  /\ oldParent' = [oldParent EXCEPT ![c] = workingCopyParentRootId]
  /\ snapshotHash' = [snapshotHash EXCEPT ![c] = rootId]
  /\ mpc' = [mpc EXCEPT ![c] = "lookup"]
  /\ mres' = [mres EXCEPT ![c] = "none"]
  /\ UNCHANGED <<checkoutInProgress, workingCopyParentRootId,
                 checkedOutRootId, renameMutex, inodeTreeAt>>
  /\ UNCHANGED notMountVars

\* EdenMount::setPathObjectId, lines 703-711: unloadChildrenUnreferencedByFs
\* and targetTreeInode->checkout(ctx, nullptr, incomingTree) begins.
setPathObjectIdLookupDone(c) ==
  /\ mpc[c] = "lookup"
  /\ mpc' = [mpc EXCEPT ![c] = "pathCheckout"]
  /\ UNCHANGED <<checkoutInProgress, workingCopyParentRootId,
                 checkedOutRootId, renameMutex, inodeTreeAt, mres, oldParent,
                 snapshotHash, mops>>
  /\ UNCHANGED notMountVars

\* targetTreeInode->checkout(ctx, nullptr, incomingTree) has run to its end.
setPathObjectIdCheckout(c) ==
  /\ mpc[c] = "pathCheckout"
  /\ inodeTreeAt' = Append(inodeTreeAt, snapshotHash[c])
  /\ mpc' = [mpc EXCEPT ![c] = "flush"]
  /\ UNCHANGED <<checkoutInProgress, workingCopyParentRootId,
                 checkedOutRootId, renameMutex, mres, oldParent, snapshotHash,
                 mops>>
  /\ UNCHANGED notMountVars

\* EdenMount::setPathObjectId, lines 712-736: ctx->flush and the result.
setPathObjectIdFlush(c) ==
  /\ mpc[c] = "flush"
  /\ mpc' = [mpc EXCEPT ![c] = "idle"]
  /\ mres' = [mres EXCEPT ![c] = "ok"]
  /\ UNCHANGED <<checkoutInProgress, workingCopyParentRootId,
                 checkedOutRootId, renameMutex, inodeTreeAt, oldParent,
                 snapshotHash, mops>>
  /\ UNCHANGED notMountVars

\* EdenMount::resetParent(parent).
resetParent(c, parent) ==
  /\ mpc[c] = "idle"
  /\ mops < MaxMountOps
  /\ mops' = mops + 1
  /\ IF checkoutInProgress THEN
       /\ mres' = [mres EXCEPT ![c] = "CHECKOUT_IN_PROGRESS"]
       /\ UNCHANGED workingCopyParentRootId
     ELSE
       /\ mres' = [mres EXCEPT ![c] = "ok"]
       /\ workingCopyParentRootId' = parent
  /\ UNCHANGED <<checkoutInProgress, checkedOutRootId, renameMutex,
                 inodeTreeAt, mpc, oldParent, snapshotHash>>
  /\ UNCHANGED notMountVars

MountNext ==
  \/ \E c \in Clients, r \in RootIds : checkoutBegin(c, r)
  \/ \E c \in Clients : checkoutContext(c)
  \/ \E c \in Clients : checkoutGetRoots(c)
  \/ \E c \in Clients : checkoutStart(c)
  \/ \E c \in Clients : checkoutInodeCheckout(c)
  \/ \E c \in Clients : checkoutFinish(c)
  \/ \E c \in Clients : checkoutEnsure(c)
  \/ \E c \in Clients, r \in RootIds : setPathObjectIdBegin(c, r)
  \/ \E c \in Clients : setPathObjectIdLookupDone(c)
  \/ \E c \in Clients : setPathObjectIdCheckout(c)
  \/ \E c \in Clients : setPathObjectIdFlush(c)
  \/ \E c \in Clients, r \in RootIds : resetParent(c, r)

(***************************************************************************)
(* PART III.  The inode tree: materialization, the Overlay, file system    *)
(* operations and TreeInode::checkout.                                     *)
(***************************************************************************)

\* Bounds of the inode tree model.
MaxOps == 2
MaxIno == 8

\* Directory entry names, in the order PathMap and Tree keep them.
Names == {"a", "b", "d", "e"}
nameRank(n) == CASE n = "a" -> 1 [] n = "b" -> 2 [] n = "d" -> 3 [] OTHER -> 4

\* ObjectIds.  NoHash is the absent hash of a materialized entry or TreeInode.
NoHash == ""
BlobIds == {"h1", "h2"}
TreeIds == {"D1", "D2", "R1", "R2"}

\* ObjectStore::getTree: the entries of each source control Tree.  The two
\* commits R1 and R2 agree on file a, R2 adds file b, and their directory d
\* differs in its file a.
scmFile(h) == [isDir |-> FALSE, hash |-> h]
scmDir(h) == [isDir |-> TRUE, hash |-> h]
getTree(h) ==
  CASE h = "D1" -> [n \in {"a"} |-> scmFile("h1")]
    [] h = "D2" -> [n \in {"a"} |-> scmFile("h2")]
    [] h = "R1" -> [n \in {"a", "d"} |-> IF n = "a" THEN scmFile("h1") ELSE scmDir("D1")]
    [] h = "R2" -> [n \in {"a", "b", "d"} |->
                      IF n = "a" THEN scmFile("h1")
                      ELSE IF n = "b" THEN scmFile("h2") ELSE scmDir("D2")]
    [] OTHER -> <<>>

\* The inode number of the root TreeInode.
RootIno == 1

\* The two lock holders of the inode tree model.
FsThread == 1
CheckoutThread == 2

\* A DirEntry: inode number, directory or file, source control hash (NoHash
\* when materialized), and whether its inode is loaded.
DirEntry(ino, isDir, hash, loaded) ==
  [ino |-> ino, isDir |-> isDir, hash |-> hash, loaded |-> loaded]

\* DirEntry::isMaterialized
isMaterialized(e) == e.hash = NoHash

\* What the Overlay keeps of a DirEntry: everything but the inode pointer.
saved(e) == [ino |-> e.ino, isDir |-> e.isDir, hash |-> e.hash]

\* Overlay::saveOverlayDir(inodeNumber, entries) applied to Overlay state ov.
saveOverlayDir(ov, ino, entries) ==
  [i \in DOMAIN ov \cup {ino} |->
     IF i = ino THEN [n \in DOMAIN entries |-> saved(entries[n])] ELSE ov[i]]

\* Overlay::removeOverlayData(inodeNumber) for a directory.
removeOverlayDir(ov, ino) == [i \in DOMAIN ov \ {ino} |-> ov[i]]

\* Overlay::recursivelyRemoveOverlayData(ino) applied to Overlay directory
\* data ov and Overlay files: the data of each inode number of inos goes,
\* and that of the entries its directory data lists (the trees of the model
\* are two levels deep).
removedWith(ov, inos) ==
  inos \cup UNION {{ov[i][n].ino : n \in DOMAIN ov[i]} : i \in inos \cap DOMAIN ov}

recursivelyRemoveOverlayData(ov, inos) ==
  [i \in DOMAIN ov \ removedWith(ov, inos) |-> ov[i]]

filesAfterRecursiveRemove(ov, files, inos) ==
  [i \in DOMAIN files \ removedWith(ov, inos) |-> files[i]]

\* The contents of files: those of a blob (its id), or contents of the
\* user's that no blob of the model has.  WriteData is what the model writes.
LocalData == "local"
WriteData == {"h1", LocalData}

\* A function without / with one name.
without(f, n) == [m \in DOMAIN f \ {n} |-> f[m]]
with(f, n, v) == [m \in DOMAIN f \cup {n} |-> IF m = n THEN v ELSE f[m]]

NoOp == [kind |-> "none", stage |-> "idle", next |-> "idle", dir |-> 0,
         name |-> "", dir2 |-> 0, name2 |-> "", ino |-> 0,
         call |-> [p |-> 0, n |-> ""], locked |-> FALSE, ownLock |-> FALSE,
         data |-> "", res |-> ""]
NoCheckout == [stage |-> "idle", mode |-> "Normal", from |-> NoHash,
               to |-> NoHash, frames |-> <<>>, flushed |-> {}]

TreeInit ==
  /\ dirs = [i \in {RootIno} |->
       [entries |-> [n \in {"a", "d"} |->
                      IF n = "a" THEN DirEntry(2, FALSE, "h1", FALSE)
                      ELSE DirEntry(3, TRUE, "D1", FALSE)],
        treeHash |-> "R1", parent |-> 0, name |-> "", unlinked |-> FALSE]]
  /\ overlay = [i \in {RootIno} |->
       [n \in {"a", "d"} |->
          IF n = "a" THEN saved(DirEntry(2, FALSE, "h1", FALSE))
          ELSE saved(DirEntry(3, TRUE, "D1", FALSE))]]
  /\ ovFiles = <<>>
  /\ crashPoints = <<>>
  /\ nextIno = 4
  /\ uop = NoOp
  /\ ck = NoCheckout
  /\ conflicts = {}
  /\ journal = <<>>
  /\ channel = {}
  /\ nops = 0

(***************************************************************************)
(* Loading and unloading in the inode tree                                 *)
(***************************************************************************)

\* buildDirFromTree with the numbers taken from just below the counter.
buildDirFromTreeBelow(h, first) ==
  LET tree == getTree(h)
      before(n) == Cardinality({m \in DOMAIN tree : nameRank(m) < nameRank(n)})
  IN [n \in DOMAIN tree |->
        DirEntry(first - 1 + before(n), tree[n].isDir, tree[n].hash, FALSE)]

\* TreeInode::buildDirFromTree: one DirEntry per Tree entry, each with a newly
\* allocated inode number (in the order of the Tree's entry list).
buildDirFromTree(h, first) ==
  LET tree == getTree(h)
      before(n) == Cardinality({m \in DOMAIN tree : nameRank(m) < nameRank(n)})
  IN [n \in DOMAIN tree |->
        DirEntry(first + before(n), tree[n].isDir, tree[n].hash, FALSE)]

\* The directory contents and the inode numbers used up by
\* TreeInode::startLoadingInode for directory entry e: the Overlay's
\* directory if it has a non-empty one (or e is materialized), else
\* saveDirFromTree.
loadedDirEntries(e) ==
  IF e.ino \in DOMAIN overlay /\ (isMaterialized(e) \/ DOMAIN overlay[e.ino] # {})
    THEN [n \in DOMAIN overlay[e.ino] |->
            DirEntry(overlay[e.ino][n].ino, overlay[e.ino][n].isDir,
                     overlay[e.ino][n].hash, FALSE)]
  ELSE IF isMaterialized(e) THEN <<>>
  ELSE buildDirFromTree(e.hash, nextIno)

usesOverlayDir(e) ==
  e.ino \in DOMAIN overlay /\ (isMaterialized(e) \/ DOMAIN overlay[e.ino] # {})

\* The TreeInodes after the child `name` of loaded TreeInode p was loaded.
dirsAfterLoad(p, name) ==
  LET e == dirs[p].entries[name]
      linked == [dirs EXCEPT ![p].entries[name].loaded = TRUE]
  IN IF ~e.isDir THEN linked
     ELSE [i \in DOMAIN dirs \cup {e.ino} |->
             IF i = e.ino
               THEN [entries |-> loadedDirEntries(e), treeHash |-> e.hash,
                     parent |-> p, name |-> name, unlinked |-> FALSE]
               ELSE linked[i]]

overlayAfterLoad(p, name) ==
  LET e == dirs[p].entries[name]
  IN IF e.isDir /\ ~usesOverlayDir(e) /\ ~isMaterialized(e)
       THEN saveOverlayDir(overlay, e.ino, loadedDirEntries(e))
       ELSE overlay

nextInoAfterLoad(p, name) ==
  LET e == dirs[p].entries[name]
  IN IF e.isDir /\ ~usesOverlayDir(e) /\ ~isMaterialized(e)
       THEN nextIno + Cardinality(DOMAIN getTree(e.hash))
       ELSE nextIno

\* The inode numbers an operation or the checkout in flight holds a pointer to.
framesInodes == {ck.frames[k].ino : k \in 1..Len(ck.frames)}
referenced == {uop.dir, uop.dir2, uop.ino} \cup framesInodes

\* No operation and no checkout is in flight.  The lookups and unloads of
\* the model happen between them; those a checkout or an operation does itself
\* are part of its steps.
quiet == uop.stage = "idle" /\ ck.stage = "idle"

\* A FUSE lookup of `name` in loaded directory p loads the child
\* (getOrFindChild with loadInodes, the load completing at once).
lookup(p, name) ==
  /\ quiet
  /\ p \in DOMAIN dirs
  /\ name \in DOMAIN dirs[p].entries
  /\ ~dirs[p].entries[name].loaded
  /\ nextInoAfterLoad(p, name) <= MaxIno
  /\ dirs' = dirsAfterLoad(p, name)
  /\ overlay' = overlayAfterLoad(p, name)
  /\ nextIno' = nextInoAfterLoad(p, name)
  /\ crashPoints' = <<>>
  /\ UNCHANGED <<ovFiles, uop, ck, conflicts, nops>>
  /\ UNCHANGED <<parentState, renameMutex>>
  /\ UNCHANGED <<journal, channel>>
  /\ UNCHANGED notTreeVars

\* The TreeInodes after the child `name` of p was unloaded: a file's inode
\* pointer is cleared; a TreeInode goes away with the pointers of its entries.
dirsAfterUnload(p, name) ==
  LET e == dirs[p].entries[name]
      cleared == [dirs EXCEPT ![p].entries[name].loaded = FALSE]
  IN IF e.isDir THEN [i \in DOMAIN dirs \ {e.ino} |-> cleared[i]] ELSE cleared

\* unloadChildrenIf: a loaded child that nothing references, and whose own
\* children are unloaded, is unloaded.
unloadable(p, name) ==
  /\ p \in DOMAIN dirs
  /\ name \in DOMAIN dirs[p].entries
  /\ dirs[p].entries[name].loaded
  /\ dirs[p].entries[name].ino \notin referenced
  /\ dirs[p].entries[name].isDir =>
       /\ dirs[p].entries[name].ino \in DOMAIN dirs
       /\ \A n \in DOMAIN dirs[dirs[p].entries[name].ino].entries :
            ~dirs[dirs[p].entries[name].ino].entries[n].loaded

unload(p, name) ==
  /\ quiet
  /\ unloadable(p, name)
  /\ dirs' = dirsAfterUnload(p, name)
  /\ crashPoints' = <<>>
  /\ UNCHANGED <<overlay, ovFiles, nextIno, uop, ck, conflicts, nops>>
  /\ UNCHANGED <<parentState, renameMutex>>
  /\ UNCHANGED <<journal, channel>>
  /\ UNCHANGED notTreeVars

(***************************************************************************)
(* Materialization                                                         *)
(***************************************************************************)

\* The call that follows a TreeInode's own step: parent->childMaterialized(
\* name), when it has a parent and is not unlinked.
NoCall == [p |-> 0, n |-> ""]
parentCall(D, ino) ==
  IF ino \in DOMAIN D /\ D[ino].parent # 0 /\ ~D[ino].unlinked
    THEN [p |-> D[ino].parent, n |-> D[ino].name]
    ELSE NoCall

\* TreeInode::childMaterialized(renameLock, childName), the part under the
\* contents lock: nothing when this directory and the entry are both
\* materialized already, else both are marked and the directory is saved.
childMaterializedNothingToDo(D, p, n) ==
  D[p].treeHash = NoHash /\ isMaterialized(D[p].entries[n])

dirsAfterChildMaterialized(D, p, n) ==
  IF childMaterializedNothingToDo(D, p, n) THEN D
  ELSE [D EXCEPT ![p].entries[n].hash = NoHash, ![p].treeHash = NoHash]

overlayAfterChildMaterialized(D, O, p, n) ==
  IF childMaterializedNothingToDo(D, p, n) THEN O
  ELSE saveOverlayDir(O, p, dirsAfterChildMaterialized(D, p, n)[p].entries)

(***************************************************************************)
(* File system operations.  One is in flight at a time; uop says which,    *)
(* and which of its steps comes next.  A step is what the operation does   *)
(* under one acquisition of a contents lock.                               *)
(***************************************************************************)

FileNames == {"a", "b"}
DirNames == {"d", "e"}

\* The operation is over: the rename lock it holds is released.
finished(res) == [NoOp EXCEPT !.res = res]
released == IF uop.locked THEN 0 ELSE renameMutex

\* The operation goes on after TreeInode::materialize or the
\* childMaterialized calls returned: to the stage uop.next names, or it is
\* over when there is none.
proceed(u) ==
  IF u.next = "idle" THEN finished("ok")
  ELSE [u EXCEPT !.stage = u.next, !.call = NoCall, !.ownLock = FALSE,
                 !.next = CASE u.next = "materialize2" /\ u.kind = "rename" -> "rename"
                            [] u.next = "materialize2" -> "clear"
                            [] OTHER -> u.next]

\* FUSE create / mknod / symlink (file), mkdir: TreeInode::materialize comes
\* first.
fsCreate(kind, d, n) ==
  /\ uop.stage = "idle"
  /\ nops < MaxOps
  /\ d \in DOMAIN dirs
  /\ n \notin DOMAIN dirs[d].entries
  /\ kind = "create" => n \in FileNames
  /\ kind = "mkdir" => (n \in DirNames /\ d = RootIno)
  /\ uop' = [NoOp EXCEPT !.kind = kind, !.stage = "materialize",
                         !.next = "insert", !.dir = d, !.name = n]
  /\ nops' = nops + 1
  /\ crashPoints' = <<>>
  /\ UNCHANGED <<dirs, overlay, ovFiles, nextIno, ck, conflicts>>
  /\ UNCHANGED <<parentState, renameMutex>>
  /\ UNCHANGED <<journal, channel>>
  /\ UNCHANGED notTreeVars

\* What TreeInode::materialize does to the TreeInode's own state t: the
\* source control hash goes, the entries stay.
materialized(t) == [t EXCEPT !.treeHash = NoHash]

\* TreeInode::materialize(renameLock) of the operation's directory.  Without
\* a rename lock the quick check under the read lock returns at once when the
\* directory is materialized; otherwise the rename lock is taken, the
\* directory is marked materialized and saved, and the parent is called.
fsMaterialize ==
  LET T == IF uop.stage = "materialize" THEN uop.dir ELSE uop.dir2 IN
  /\ uop.stage \in {"materialize", "materialize2"}
  /\ IF dirs[T].treeHash = NoHash THEN
       /\ uop' = proceed(uop)
       /\ UNCHANGED <<dirs, overlay, renameMutex>>
     ELSE
       /\ uop.locked \/ renameMutex = 0
       /\ renameMutex' = FsThread
       /\ dirs' = [dirs EXCEPT ![T] = materialized(dirs[T])]
       /\ overlay' = saveOverlayDir(overlay, T, dirs[T].entries)
       /\ uop' = [uop EXCEPT !.stage = "notify", !.call = parentCall(dirs, T),
                             !.ownLock = ~uop.locked]
  /\ crashPoints' = <<>>
  /\ UNCHANGED <<ovFiles, nextIno, ck, conflicts, nops>>
  /\ UNCHANGED parentState
  /\ UNCHANGED <<journal, channel>>
  /\ UNCHANGED notTreeVars

\* parent->childMaterialized(renameLock, name), one directory per step, up
\* to the root or to a directory that has nothing to do; then the rename
\* lock that materialize took is released and the operation goes on.
fsChildMaterialized ==
  LET p == uop.call.p
      n == uop.call.n
      over == p = 0 \/ childMaterializedNothingToDo(dirs, p, n)
  IN
  /\ uop.stage = "notify"
  /\ p # 0 => n \in DOMAIN dirs[p].entries
  /\ IF over THEN
       /\ uop' = proceed(uop)
       /\ renameMutex' = IF uop.ownLock THEN 0 ELSE renameMutex
       /\ UNCHANGED <<dirs, overlay>>
     ELSE
       /\ dirs' = dirsAfterChildMaterialized(dirs, p, n)
       /\ overlay' = overlayAfterChildMaterialized(dirs, overlay, p, n)
       /\ uop' = [uop EXCEPT !.call = parentCall(dirs, p)]
       /\ UNCHANGED renameMutex
  /\ crashPoints' = <<>>
  /\ UNCHANGED <<ovFiles, nextIno, ck, conflicts, nops>>
  /\ UNCHANGED parentState
  /\ UNCHANGED <<journal, channel>>
  /\ UNCHANGED notTreeVars

\* TreeInode::createImpl and the locked part of TreeInode::mkdir: with the
\* contents lock held, EEXIST if the name is taken, ENOENT if the directory
\* was unlinked; else the child's Overlay data is written, a materialized
\* entry with a new inode number is added, and the directory is saved.
fsInsert ==
  LET d == uop.dir
      n == uop.name
      isDir == uop.kind = "mkdir"
      entry == DirEntry(nextIno, isDir, NoHash, TRUE)
      added == [dirs EXCEPT ![d].entries = with(@, n, entry)]
      childSaved == IF isDir THEN saveOverlayDir(overlay, nextIno, <<>>) ELSE overlay
      filesSaved == IF isDir THEN ovFiles ELSE with(ovFiles, nextIno, LocalData)
  IN
  /\ uop.stage = "insert"
  /\ IF n \in DOMAIN dirs[d].entries THEN
       /\ uop' = finished("EEXIST")
       /\ crashPoints' = <<>>
       /\ UNCHANGED <<dirs, overlay, ovFiles, nextIno>>
     ELSE IF dirs[d].unlinked THEN
       /\ uop' = finished("ENOENT")
       /\ crashPoints' = <<>>
       /\ UNCHANGED <<dirs, overlay, ovFiles, nextIno>>
     ELSE
       /\ nextIno < MaxIno
       /\ nextIno' = nextIno + 1
       /\ ovFiles' = filesSaved
       /\ dirs' = IF isDir
                    THEN [i \in DOMAIN dirs \cup {nextIno} |->
                            IF i = nextIno
                              THEN [entries |-> <<>>, treeHash |-> NoHash,
                                    parent |-> d, name |-> n, unlinked |-> FALSE]
                              ELSE added[i]]
                    ELSE added
       /\ overlay' = saveOverlayDir(childSaved, d, added[d].entries)
       /\ crashPoints' = <<[dirs |-> childSaved, files |-> filesSaved]>>
       /\ uop' = finished("ok")
  /\ UNCHANGED <<ck, conflicts, nops>>
  /\ UNCHANGED <<parentState, renameMutex>>
  /\ UNCHANGED <<journal, channel>>
  /\ UNCHANGED notTreeVars

\* A FUSE write of `data` to the file `n` of directory d (looked up and
\* opened first).
fsWrite(d, n, data) ==
  /\ uop.stage = "idle"
  /\ nops < MaxOps
  /\ d \in DOMAIN dirs
  /\ n \in DOMAIN dirs[d].entries
  /\ ~dirs[d].entries[n].isDir
  /\ dirs' = [dirs EXCEPT ![d].entries[n].loaded = TRUE]
  /\ uop' = [NoOp EXCEPT !.kind = "write", !.stage = "fileMaterialize",
                         !.dir = d, !.name = n, !.ino = dirs[d].entries[n].ino,
                         !.data = data]
  /\ nops' = nops + 1
  /\ crashPoints' = <<>>
  /\ UNCHANGED <<overlay, ovFiles, nextIno, ck, conflicts>>
  /\ UNCHANGED <<parentState, renameMutex>>
  /\ UNCHANGED <<journal, channel>>
  /\ UNCHANGED notTreeVars

\* The inode of the operation is still the entry it was found under.
linked == /\ uop.name \in DOMAIN dirs[uop.dir].entries
          /\ dirs[uop.dir].entries[uop.name].ino = uop.ino

\* The file's contents are written to the Overlay: to the file it has there
\* when it is materialized already, else it materializes and its parent is
\* told next.
fsFileMaterialize ==
  /\ uop.stage = "fileMaterialize"
  /\ ovFiles' = with(ovFiles, uop.ino, uop.data)
  /\ IF linked /\ isMaterialized(dirs[uop.dir].entries[uop.name])
       THEN uop' = finished("ok")
       ELSE uop' = [uop EXCEPT !.stage = "fileParent"]
  /\ crashPoints' = <<>>
  /\ UNCHANGED <<dirs, overlay, nextIno, ck, conflicts, nops>>
  /\ UNCHANGED <<parentState, renameMutex>>
  /\ UNCHANGED <<journal, channel>>
  /\ UNCHANGED notTreeVars

\* The file then takes the rename lock and, unless it has been unlinked,
\* calls parent->childMaterialized(renameLock, name).
fsFileParent ==
  /\ uop.stage = "fileParent"
  /\ renameMutex = 0
  /\ IF linked THEN
       /\ renameMutex' = FsThread
       /\ uop' = [uop EXCEPT !.stage = "notify", !.ownLock = TRUE,
                             !.call = [p |-> uop.dir, n |-> uop.name]]
     ELSE
       /\ uop' = finished("ok")
       /\ UNCHANGED renameMutex
  /\ crashPoints' = <<>>
  /\ UNCHANGED <<dirs, overlay, ovFiles, nextIno, ck, conflicts, nops>>
  /\ UNCHANGED parentState
  /\ UNCHANGED <<journal, channel>>
  /\ UNCHANGED notTreeVars

\* TreeInode::checkPreRemove of the child with inode number ino.
checkPreRemove(ino) ==
  IF ino \in DOMAIN dirs /\ DOMAIN dirs[ino].entries # {} THEN "ENOTEMPTY" ELSE "ok"

\* TreeInode::unlink / TreeInode::rmdir: getOrLoadChild, then removeImpl up
\* to the rename lock (the type check and checkPreRemove).
fsRemove(kind, d, n) ==
  LET loadedDirs == IF dirs[d].entries[n].loaded THEN dirs ELSE dirsAfterLoad(d, n)
      wrongType == dirs[d].entries[n].isDir # (kind = "rmdir")
      notEmpty == /\ dirs[d].entries[n].isDir
                  /\ DOMAIN loadedDirs[dirs[d].entries[n].ino].entries # {}
  IN
  /\ uop.stage = "idle"
  /\ nops < MaxOps
  /\ d \in DOMAIN dirs
  /\ n \in DOMAIN dirs[d].entries
  /\ dirs[d].entries[n].loaded \/ nextInoAfterLoad(d, n) <= MaxIno
  /\ dirs' = loadedDirs
  /\ dirs[d].entries[n].loaded => UNCHANGED <<overlay, nextIno>>
  /\ ~dirs[d].entries[n].loaded =>
       /\ overlay' = overlayAfterLoad(d, n)
       /\ nextIno' = nextInoAfterLoad(d, n)
  /\ uop' = IF wrongType THEN finished(IF kind = "rmdir" THEN "ENOTDIR" ELSE "EISDIR")
            ELSE IF notEmpty THEN finished("ENOTEMPTY")
            ELSE [NoOp EXCEPT !.kind = kind, !.stage = "lock", !.next = "remove",
                              !.dir = d, !.name = n, !.ino = dirs[d].entries[n].ino]
  /\ nops' = nops + 1
  /\ crashPoints' = <<>>
  /\ UNCHANGED <<ovFiles, ck, conflicts>>
  /\ UNCHANGED <<parentState, renameMutex>>
  /\ UNCHANGED <<journal, channel>>
  /\ UNCHANGED notTreeVars

\* getMount()->acquireRenameLock() of removeImpl, rename and
\* removeRecursivelyNoFlushInvalidation; materialize(&renameLock) follows.
fsLock ==
  /\ uop.stage = "lock"
  /\ renameMutex = 0
  /\ renameMutex' = FsThread
  /\ uop' = [uop EXCEPT !.locked = TRUE,
                        !.stage = IF uop.kind = "clear" THEN "materialize2" ELSE "materialize",
                        !.next = CASE uop.kind = "clear" -> "clear"
                                   [] uop.kind = "rename" /\ uop.dir2 # uop.dir -> "materialize2"
                                   [] uop.kind = "rename" -> "rename"
                                   [] OTHER -> "remove"]
  /\ crashPoints' = <<>>
  /\ UNCHANGED <<dirs, overlay, ovFiles, nextIno, ck, conflicts, nops>>
  /\ UNCHANGED parentState
  /\ UNCHANGED <<journal, channel>>
  /\ UNCHANGED notTreeVars

\* The TreeInodes without the one that was unlinked.
dirsWithout(D, ino) == [i \in DOMAIN D \ {ino} |-> D[i]]

\* TreeInode::tryRemoveChild after materialize, under the contents lock:
\* ENOENT when the name is gone; EBADF when the entry's inode is not loaded,
\* and removeImpl loads it and starts again; the child must still be
\* removable; then it is unlinked, the entry erased and the directory saved.
fsRemoveEntry ==
  LET d == uop.dir
      n == uop.name
      e == dirs[d].entries[n]
      erased == [dirs EXCEPT ![d].entries = without(@, n)]
  IN
  /\ uop.stage = "remove"
  /\ IF n \notin DOMAIN dirs[d].entries THEN
       /\ uop' = finished("ENOENT")
       /\ renameMutex' = 0
       /\ UNCHANGED <<dirs, overlay, nextIno>>
     ELSE IF ~e.loaded THEN
       /\ nextInoAfterLoad(d, n) <= MaxIno
       /\ dirs' = dirsAfterLoad(d, n)
       /\ overlay' = overlayAfterLoad(d, n)
       /\ nextIno' = nextInoAfterLoad(d, n)
       /\ uop' = [uop EXCEPT !.stage = "lock", !.locked = FALSE, !.ino = e.ino]
       /\ renameMutex' = 0
     ELSE IF e.isDir # (uop.kind = "rmdir") THEN
       /\ uop' = finished(IF uop.kind = "rmdir" THEN "ENOTDIR" ELSE "EISDIR")
       /\ renameMutex' = 0
       /\ UNCHANGED <<dirs, overlay, nextIno>>
     ELSE IF checkPreRemove(e.ino) # "ok" THEN
       /\ uop' = finished(checkPreRemove(e.ino))
       /\ renameMutex' = 0
       /\ UNCHANGED <<dirs, overlay, nextIno>>
     ELSE
       /\ dirs' = dirsWithout(erased, e.ino)
       /\ overlay' = saveOverlayDir(overlay, d, erased[d].entries)
       /\ uop' = finished("ok")
       /\ renameMutex' = 0
       /\ UNCHANGED nextIno
  /\ crashPoints' = <<>>
  /\ UNCHANGED <<ovFiles, ck, conflicts, nops>>
  /\ UNCHANGED parentState
  /\ UNCHANGED <<journal, channel>>
  /\ UNCHANGED notTreeVars

\* TreeInode::rename(name, destParent, destName) of a file: the rename lock
\* and the two materialize calls come first.
fsRename(d, n, d2, n2) ==
  /\ uop.stage = "idle"
  /\ nops < MaxOps
  /\ d \in DOMAIN dirs
  /\ d2 \in DOMAIN dirs
  /\ n \in DOMAIN dirs[d].entries
  /\ <<d, n>> # <<d2, n2>>
  /\ uop' = [NoOp EXCEPT !.kind = "rename", !.stage = "lock", !.dir = d,
                         !.name = n, !.dir2 = d2, !.name2 = n2]
  /\ nops' = nops + 1
  /\ crashPoints' = <<>>
  /\ UNCHANGED <<dirs, overlay, ovFiles, nextIno, ck, conflicts>>
  /\ UNCHANGED <<parentState, renameMutex>>
  /\ UNCHANGED <<journal, channel>>
  /\ UNCHANGED notTreeVars

\* TreeInode::rename with both directories materialized and locked, and
\* TreeInode::doRename: ENOENT when the source is gone; when the source or
\* the destination child is not loaded the locks are dropped, they are
\* loaded and rename starts again; else the destination child (if any) is
\* unlinked, the source entry moves with its hash, and Overlay::renameChild
\* saves both directories.
fsRenameEntries ==
  LET d == uop.dir
      n == uop.name
      d2 == uop.dir2
      n2 == uop.name2
      needSrc == ~dirs[d].entries[n].loaded
      needDest == n2 \in DOMAIN dirs[d2].entries /\ ~dirs[d2].entries[n2].loaded
      srcLoaded == [dirs EXCEPT ![d].entries[n].loaded = TRUE]
      bothLoaded == IF needDest
                      THEN [srcLoaded EXCEPT ![d2].entries[n2].loaded = TRUE]
                      ELSE srcLoaded
      taken == [dirs EXCEPT ![d].entries = without(@, n)]
      moved == [taken EXCEPT ![d2].entries = with(@, n2, dirs[d].entries[n])]
  IN
  /\ uop.stage = "rename"
  /\ renameMutex' = 0
  /\ IF n \notin DOMAIN dirs[d].entries THEN
       /\ uop' = finished("ENOENT")
       /\ UNCHANGED <<dirs, overlay>>
     ELSE IF needSrc \/ needDest THEN
       /\ dirs' = bothLoaded
       /\ uop' = [uop EXCEPT !.stage = "lock", !.locked = FALSE]
       /\ UNCHANGED overlay
     ELSE
       /\ dirs' = moved
       /\ overlay' = saveOverlayDir(saveOverlayDir(overlay, d, moved[d].entries),
                                    d2, moved[d2].entries)
       /\ uop' = finished("ok")
  /\ crashPoints' = <<>>
  /\ UNCHANGED <<ovFiles, nextIno, ck, conflicts, nops>>
  /\ UNCHANGED parentState
  /\ UNCHANGED <<journal, channel>>
  /\ UNCHANGED notTreeVars

\* TreeInode::removeRecursively(name), called for a directory by
\* EdenServiceHandler::removeRecursively.
fsRemoveRecursively(d, n) ==
  /\ uop.stage = "idle"
  /\ nops < MaxOps
  /\ d \in DOMAIN dirs
  /\ n \in DOMAIN dirs[d].entries
  /\ uop' = [NoOp EXCEPT !.kind = "removeRecursively", !.stage = "tryUnloaded",
                         !.dir = d, !.name = n]
  /\ nops' = nops + 1
  /\ crashPoints' = <<>>
  /\ UNCHANGED <<dirs, overlay, ovFiles, nextIno, ck, conflicts>>
  /\ UNCHANGED <<parentState, renameMutex>>
  /\ UNCHANGED <<journal, channel>>
  /\ UNCHANGED notTreeVars

\* TreeInode::tryRemoveUnloadedChild under the contents lock, without the
\* rename lock and without materialize: a loaded child goes the slow way
\* (removeImpl for a file, removeAllChildrenRecursively and removeImpl for a
\* directory); an unloaded one is erased.  The entry's type is read through
\* the iterator after the erase, so either kind may be read (readsDir): for
\* a directory recursivelyRemoveOverlayData(child), for a file
\* Overlay::removeChild(child, name, entries), which saves the entries under
\* the number it is given.  The directory itself is not saved.
fsTryRemoveUnloadedChild(readsDir) ==
  LET d == uop.dir
      n == uop.name
      e == dirs[d].entries[n]
      erased == [dirs EXCEPT ![d].entries = without(@, n)]
  IN
  /\ uop.stage = "tryUnloaded"
  /\ IF n \notin DOMAIN dirs[d].entries THEN
       /\ uop' = finished("ENOENT")
       /\ UNCHANGED <<dirs, overlay, ovFiles>>
     ELSE IF e.loaded THEN
       /\ uop' = IF e.isDir
                   THEN [uop EXCEPT !.kind = "clear", !.stage = "lock",
                                    !.dir2 = e.ino, !.ino = e.ino]
                   ELSE [uop EXCEPT !.kind = "unlink", !.stage = "lock",
                                    !.next = "remove", !.ino = e.ino]
       /\ UNCHANGED <<dirs, overlay, ovFiles>>
     ELSE
       /\ dirs' = erased
       /\ overlay' = IF readsDir THEN recursivelyRemoveOverlayData(overlay, {e.ino})
                     ELSE saveOverlayDir(overlay, e.ino, erased[d].entries)
       /\ ovFiles' = IF readsDir THEN filesAfterRecursiveRemove(overlay, ovFiles, {e.ino})
                     ELSE ovFiles
       /\ uop' = finished("ok")
  /\ crashPoints' = <<>>
  /\ UNCHANGED <<nextIno, ck, conflicts, nops>>
  /\ UNCHANGED <<parentState, renameMutex>>
  /\ UNCHANGED <<journal, channel>>
  /\ UNCHANGED notTreeVars

\* TreeInode::removeAllChildrenRecursively of the loaded child directory,
\* step 3 under its contents lock (its children are files or unloaded):
\* each entry is erased and its Overlay data removed, and when all are gone
\* Overlay::removeChildren saves the directory.  The rename lock is dropped
\* and removeImpl follows.
fsRemoveAllChildren ==
  LET c == uop.dir2
      kids == {dirs[c].entries[n].ino : n \in DOMAIN dirs[c].entries}
      dataGone == recursivelyRemoveOverlayData(overlay, kids)
      filesGone == filesAfterRecursiveRemove(overlay, ovFiles, kids)
  IN
  /\ uop.stage = "clear"
  /\ dirs' = [dirs EXCEPT ![c].entries = <<>>]
  /\ overlay' = saveOverlayDir(dataGone, c, <<>>)
  /\ ovFiles' = filesGone
  /\ crashPoints' = IF kids = {} THEN <<>>
                    ELSE <<[dirs |-> dataGone, files |-> filesGone]>>
  /\ renameMutex' = 0
  /\ uop' = [uop EXCEPT !.kind = "rmdir", !.stage = "lock", !.next = "remove",
                        !.locked = FALSE, !.dir2 = 0]
  /\ UNCHANGED <<nextIno, ck, conflicts, nops>>
  /\ UNCHANGED parentState
  /\ UNCHANGED <<journal, channel>>
  /\ UNCHANGED notTreeVars

(***************************************************************************)
(* Checkout.  EdenMount::checkout drives TreeInode::checkout over the      *)
(* loaded TreeInodes; ck.frames is the chain of TreeInode::checkout calls  *)
(* that are running, the innermost last.  The CheckoutActions of one       *)
(* directory run in any order, one at a time.                              *)
(***************************************************************************)

CheckoutModes == {"Normal", "DryRun", "Force"}

\* The frame of the innermost TreeInode::checkout call.
top == ck.frames[Len(ck.frames)]

\* Tree::getEntryPtr(name) of a Tree that may be null.
NoScm == [isDir |-> FALSE, hash |-> NoHash]
scmEntry(h, n) ==
  IF h # NoHash /\ n \in DOMAIN getTree(h) THEN getTree(h)[n] ELSE NoScm

\* TreeInode::canShortCircuitCheckout(ctx, treeHash, fromTree, toTree).
canShortCircuitCheckout(mode, treeHash, from, to) ==
  IF mode = "DryRun"
    THEN IF from # NoHash THEN treeHash = from
         ELSE to = NoHash \/ treeHash = to
  ELSE IF to = NoHash \/ treeHash # to THEN FALSE
  ELSE IF from = NoHash THEN TRUE
  ELSE treeHash = from

neverShortCircuits(T, mode, from, to) == FALSE

\* computeCheckoutActions, lines 2843-2847: the early return.
shortCircuits(T, mode, from, to) ==
  /\ dirs[T].treeHash # NoHash
  /\ canShortCircuitCheckout(mode, dirs[T].treeHash, from, to)

\* processCheckoutEntry, lines 3084-3088: once the conflict is recorded,
\* nothing else is done about the entry unless the checkout is forced.
neverBailsOut(conflictType, mode) == FALSE
bailsOut(conflictType, mode) == conflictType # "" /\ mode # "Force"

\* processCheckoutEntry, lines 2965-3010: the directory has no entry of the
\* name.  A new entry is added; one that the new Tree removes is flagged as
\* MISSING_REMOVED; one that the new Tree modifies as REMOVED_MODIFIED, and
\* is added when the checkout is forced.
missingEntryUnflagged(hasOld, hasNew, mode) ==
  IF ~hasOld THEN [kind |-> IF mode = "DryRun" THEN "none" ELSE "add", conflict |-> ""]
  ELSE IF ~hasNew THEN [kind |-> "none", conflict |-> ""]
  ELSE [kind |-> IF mode = "Force" THEN "add" ELSE "none", conflict |-> "REMOVED_MODIFIED"]
missingEntry(hasOld, hasNew, mode) ==
  IF ~hasOld THEN [kind |-> IF mode = "DryRun" THEN "none" ELSE "add", conflict |-> ""]
  ELSE IF ~hasNew THEN [kind |-> "none", conflict |-> "MISSING_REMOVED"]
  ELSE [kind |-> IF mode = "Force" THEN "add" ELSE "none", conflict |-> "REMOVED_MODIFIED"]

\* TreeInode::processCheckoutEntry for one name of the walk: what is done
\* about the entry ("none", "add", "replace", "remove", or "action" when a
\* CheckoutAction is made for it) and the conflict that is recorded.
processCheckoutEntry(T, mode, from, to, n) ==
  LET old == scmEntry(from, n)
      new == scmEntry(to, n)
      hasOld == old.hash # NoHash
      hasNew == new.hash # NoHash
      present == n \in DOMAIN dirs[T].entries
      e == dirs[T].entries[n]
      force == mode = "Force"
      dry == mode = "DryRun"
      conflictType == IF ~hasOld THEN "UNTRACKED_ADDED"
                      ELSE IF e.hash # old.hash THEN "MODIFIED_MODIFIED"
                      ELSE ""
      change == IF hasNew THEN "replace" ELSE "remove"
  IN
  IF ~force /\ hasOld /\ hasNew /\ old.isDir = new.isDir /\ old.hash = new.hash
    THEN [kind |-> "none", conflict |-> ""]
  ELSE IF ~present THEN missingEntry(hasOld, hasNew, mode)
  ELSE IF e.loaded THEN [kind |-> "action", conflict |-> ""]
  ELSE IF isMaterialized(e) THEN [kind |-> "action", conflict |-> ""]
  ELSE IF conflictType # "" /\ e.isDir THEN [kind |-> "action", conflict |-> ""]
  ELSE IF bailsOut(conflictType, mode) THEN [kind |-> "none", conflict |-> conflictType]
  ELSE IF dry THEN [kind |-> "none", conflict |-> conflictType]
  ELSE [kind |-> change, conflict |-> conflictType]

\* The names computeCheckoutActions walks: those of fromTree and toTree.
walkOldNames(from, to) == IF from = NoHash THEN {} ELSE DOMAIN getTree(from)
walkNames(from, to) ==
  (IF from = NoHash THEN {} ELSE DOMAIN getTree(from)) \cup
  (IF to = NoHash THEN {} ELSE DOMAIN getTree(to))

\* The names whose processing allocates an inode number, and the number each
\* gets: the walk goes in name order.
allocating(T, mode, from, to) ==
  {n \in walkNames(from, to) :
     processCheckoutEntry(T, mode, from, to, n).kind \in {"add", "replace"}}

allocated(T, mode, from, to, n) ==
  nextIno + Cardinality({m \in allocating(T, mode, from, to) : nameRank(m) < nameRank(n)})

\* The entries of T when computeCheckoutActions returns.
entriesAfterCompute(T, mode, from, to) ==
  LET kind(n) == processCheckoutEntry(T, mode, from, to, n).kind
      walked == walkNames(from, to)
      gone == {n \in walked : kind(n) = "remove"}
      fresh == {n \in walked : kind(n) \in {"add", "replace"}}
      old == dirs[T].entries
  IN [n \in (DOMAIN old \ gone) \cup fresh |->
        IF n \in fresh
          THEN DirEntry(allocated(T, mode, from, to, n), scmEntry(to, n).isDir,
                        scmEntry(to, n).hash, FALSE)
          ELSE old[n]]

\* The conflicts computeCheckoutActions records.
conflictsOfCompute(T, mode, from, to) ==
  {[type |-> processCheckoutEntry(T, mode, from, to, n).conflict, dir |-> T, name |-> n] :
     n \in {m \in walkNames(from, to) :
              processCheckoutEntry(T, mode, from, to, m).conflict # ""}}

\* The CheckoutActions computeCheckoutActions makes.
actionsOfCompute(T, mode, from, to) ==
  {n \in walkNames(from, to) :
     processCheckoutEntry(T, mode, from, to, n).kind = "action"}

\* The directories whose unloaded entry computeCheckoutActions replaces or
\* removes: their inode numbers are forgotten in the Overlay.
forgottenDirs(T, mode, from, to) ==
  {dirs[T].entries[n].ino :
     n \in {m \in walkNames(from, to) \cap DOMAIN dirs[T].entries :
              /\ processCheckoutEntry(T, mode, from, to, m).kind \in {"replace", "remove"}
              /\ dirs[T].entries[m].isDir}}

\* tryToDematerialize of TreeInode::saveOverlayPostCheckout: the hash the
\* directory gets, NoHash when it stays materialized.  Entries and Tree are
\* gone through side by side in sorted order; k is the position.
nth(f, k) ==
  CHOOSE n \in DOMAIN f : Cardinality({m \in DOMAIN f : nameRank(m) < nameRank(n)}) = k - 1

neverDematerializes(entries, to) == NoHash
dematerializesToAny(entries, to) == to
tryToDematerialize(entries, to) ==
  IF to = NoHash THEN NoHash
  ELSE IF Cardinality(DOMAIN getTree(to)) # Cardinality(DOMAIN entries) THEN NoHash
  ELSE IF \E k \in 1..Cardinality(DOMAIN entries) :
            \/ isMaterialized(entries[nth(entries, k)])
            \/ entries[nth(entries, k)].hash # getTree(to)[nth(getTree(to), k)].hash
         THEN NoHash
  ELSE to

\* What saveOverlayPostCheckout(ctx, tree) does to the TreeInode's own state
\* t: it takes the hash tryToDematerialize gives, the entries stay.
dematerialized(t, to) == [t EXCEPT !.treeHash = tryToDematerialize(t.entries, to)]

\* A TreeInode::checkout call that begins.
Frame(ino, from, to) ==
  [ino |-> ino, from |-> from, to |-> to, stage |-> "compute", pending |-> {},
   failed |-> {}, listModified |-> FALSE, call |-> NoCall, demat |-> NoHash]

\* collectAll(actionFutures) of TreeInode::checkout: every action is over.
actionsNotAwaited(f) == TRUE
actionsDone(f) == f.pending = {}

\* TreeInode::checkout returns: the caller's action for this directory is
\* over; the root's return ends rootInode->checkout.
popFrame ==
  LET k == Len(ck.frames)
      rest == SubSeq(ck.frames, 1, k - 1)
      name == IF top.ino \in DOMAIN dirs THEN dirs[top.ino].name ELSE ""
  IN IF k = 1 THEN [ck EXCEPT !.frames = <<>>, !.stage = "finish"]
     ELSE [ck EXCEPT !.frames = [rest EXCEPT ![k - 1].pending = @ \ {name}]]

\* unloadChildrenUnreferencedByFs: inodes nothing holds are unloaded.
dirsAfterUnloadAll ==
  [i \in {j \in DOMAIN dirs : j = RootIno \/ j \in referenced} |->
     [dirs[i] EXCEPT !.entries =
        [n \in DOMAIN dirs[i].entries |->
           [dirs[i].entries[n] EXCEPT !.loaded = @ /\ dirs[i].entries[n].ino \in referenced]]]]

\* EdenMount::checkout up to the rename lock: the flag is tested and set and
\* the working copy parent read under parentState_.wlock().
ckBegin(target, mode) ==
  /\ ck.stage = "idle"
  /\ nops < MaxOps
  /\ ~checkoutInProgress
  /\ checkoutInProgress' = TRUE
  /\ ck' = [NoCheckout EXCEPT !.stage = "start", !.mode = mode,
                              !.from = workingCopyParentRootId, !.to = target]
  /\ nops' = nops + 1
  /\ conflicts' = {}
  /\ crashPoints' = <<>>
  /\ UNCHANGED <<dirs, overlay, ovFiles, nextIno, uop, journal, channel>>
  /\ UNCHANGED <<workingCopyParentRootId, checkedOutRootId, renameMutex>>
  /\ UNCHANGED notTreeVars

\* acquireRenameLock, ctx->start, unloadChildrenUnreferencedByFs, and
\* rootInode->checkout(ctx, fromTree, toTree) is called.
ckStart(unloads) ==
  /\ ck.stage = "start"
  /\ renameMutex = 0
  /\ renameMutex' = CheckoutThread
  /\ dirs' = IF unloads THEN dirsAfterUnloadAll ELSE dirs
  /\ ck' = [ck EXCEPT !.stage = "inodeCheckout",
                      !.frames = <<Frame(RootIno, ck.from, ck.to)>>]
  /\ crashPoints' = <<>>
  /\ UNCHANGED <<overlay, ovFiles, nextIno, uop, conflicts, nops>>
  /\ UNCHANGED parentState
  /\ UNCHANGED <<journal, channel>>
  /\ UNCHANGED notTreeVars

\* FuseChannel::invalidateEntry(ino, name) and invalidateInode(ino): the
\* invalidation is queued for the channel's invalidation thread.  The name
\* of a directory invalidation is empty.
invalidateEntries(ch, ino, names) ==
  ch \cup {[dir |-> ino, name |-> n] : n \in names}
invalidateInode(ch, ino) == invalidateEntries(ch, ino, {""})

\* The names computeCheckoutActions adds, replaces or removes itself: the
\* kernel's cache of each is invalidated.
changedByCompute(T, mode, from, to) ==
  {n \in walkNames(from, to) :
     processCheckoutEntry(T, mode, from, to, n).kind \in {"add", "replace", "remove"}}

\* TreeInode::computeCheckoutActions, under the contents lock.
ckCompute ==
  LET T == top.ino
      k == Len(ck.frames)
      gone == forgottenDirs(T, ck.mode, top.from, top.to)
      changed == changedByCompute(T, ck.mode, top.from, top.to)
  IN
  /\ ck.stage = "inodeCheckout"
  /\ top.stage = "compute"
  /\ IF shortCircuits(T, ck.mode, top.from, top.to) THEN
       /\ ck' = [ck EXCEPT !.frames[k].stage = "actions"]
       /\ UNCHANGED <<dirs, overlay, ovFiles, nextIno, conflicts, channel>>
     ELSE
       /\ nextIno + Cardinality(allocating(T, ck.mode, top.from, top.to)) <= MaxIno
       /\ dirs' = [dirs EXCEPT ![T].entries =
                     entriesAfterCompute(T, ck.mode, top.from, top.to)]
       /\ nextIno' = nextIno + Cardinality(allocating(T, ck.mode, top.from, top.to))
       /\ conflicts' = conflicts \cup conflictsOfCompute(T, ck.mode, top.from, top.to)
       /\ overlay' = recursivelyRemoveOverlayData(overlay, gone)
       /\ ovFiles' = filesAfterRecursiveRemove(overlay, ovFiles, gone)
       /\ channel' = invalidateEntries(channel, T, changed)
       /\ ck' = [ck EXCEPT !.frames[k].stage = "actions",
                           !.frames[k].listModified = changed # {},
                           !.frames[k].pending =
                              actionsOfCompute(T, ck.mode, top.from, top.to)]
  /\ crashPoints' = <<>>
  /\ UNCHANGED <<uop, nops, journal>>
  /\ UNCHANGED <<parentState, renameMutex>>
  /\ UNCHANGED notTreeVars

\* The contents of the file of entry e: those of its Overlay file
\* when it is materialized, else those of its blob.
fileData(e) ==
  IF ~isMaterialized(e) THEN e.hash
  ELSE IF e.ino \in DOMAIN ovFiles THEN ovFiles[e.ino] ELSE LocalData

\* The conflict a CheckoutAction finds for a loaded file: untracked when the
\* old tree has no such entry; modified when the file's contents are not
\* those of the old blob.
actionConflict(e, old, new) ==
  IF old.hash = NoHash THEN "UNTRACKED_ADDED"
  ELSE IF fileData(e) # old.hash
    THEN IF new.hash = NoHash THEN "MODIFIED_REMOVED" ELSE "MODIFIED_MODIFIED"
  ELSE ""

\* One CheckoutAction of the innermost directory runs: the inode is loaded;
\* for a file, a conflict is recorded and, unless forced, nothing else is
\* done, else TreeInode::checkoutUpdateEntry unlinks the inode and puts the
\* new entry in its place (the directory is not saved here); for a directory
\* checkoutUpdateEntry calls its checkout().
ckAction(n) ==
  LET T == top.ino
      k == Len(ck.frames)
      e == dirs[T].entries[n]
      old == scmEntry(top.from, n)
      new == scmEntry(top.to, n)
      loadedDirs == IF e.loaded THEN dirs ELSE dirsAfterLoad(T, n)
      first == IF e.loaded THEN nextIno ELSE nextInoAfterLoad(T, n)
      conflict == actionConflict(e, old, new)
      keeps == (conflict # "" /\ ck.mode # "Force") \/ ck.mode = "DryRun"
      done == [ck EXCEPT !.frames[k].pending = @ \ {n}]
      updated == [done EXCEPT !.frames[k].listModified = TRUE]
  IN
  /\ ck.stage = "inodeCheckout"
  /\ top.stage = "actions"
  /\ n \in top.pending
  /\ n \in DOMAIN dirs[T].entries
  /\ overlay' = IF e.loaded THEN overlay ELSE overlayAfterLoad(T, n)
  /\ IF e.isDir THEN
       /\ new.isDir
       /\ first <= MaxIno
       /\ dirs' = loadedDirs
       /\ nextIno' = first
       /\ ck' = [ck EXCEPT !.frames = Append(@, Frame(e.ino,
                    IF old.isDir THEN old.hash ELSE NoHash, new.hash))]
       /\ UNCHANGED <<conflicts, channel>>
     ELSE
       /\ conflicts' = IF conflict = "" THEN conflicts
                       ELSE conflicts \cup {[type |-> conflict, dir |-> T, name |-> n]}
       /\ IF keeps THEN
            /\ dirs' = loadedDirs
            /\ nextIno' = first
            /\ ck' = done
            /\ UNCHANGED channel
          ELSE IF new.hash = NoHash THEN
            /\ dirs' = [loadedDirs EXCEPT ![T].entries = without(@, n)]
            /\ nextIno' = first
            /\ ck' = updated
            /\ channel' = invalidateEntries(channel, T, {n})
          ELSE
            /\ first < MaxIno
            /\ dirs' = [loadedDirs EXCEPT ![T].entries[n] =
                          DirEntry(first, new.isDir, new.hash, FALSE)]
            /\ nextIno' = first + 1
            /\ ck' = updated
            /\ channel' = invalidateEntries(channel, T, {n})
  /\ crashPoints' = <<>>
  /\ UNCHANGED <<ovFiles, uop, nops, journal>>
  /\ UNCHANGED <<parentState, renameMutex>>
  /\ UNCHANGED notTreeVars

\* One CheckoutAction of the innermost directory fails (the inode cannot be
\* loaded, or its contents cannot be read): its future holds an exception
\* and nothing is changed.
ckActionFails(n) ==
  LET k == Len(ck.frames)
  IN
  /\ ck.stage = "inodeCheckout"
  /\ top.stage = "actions"
  /\ n \in top.pending
  /\ ck' = [ck EXCEPT !.frames[k].pending = @ \ {n},
                      !.frames[k].failed = @ \cup {n}]
  /\ crashPoints' = <<>>
  /\ UNCHANGED <<dirs, overlay, ovFiles, nextIno, uop, conflicts, nops>>
  /\ UNCHANGED <<journal, channel>>
  /\ UNCHANGED <<parentState, renameMutex>>
  /\ UNCHANGED notTreeVars

\* ctx->addError for each action whose future holds an exception: the
\* errors go to the list of conflicts, with the type ERROR.
errorsDropped(T, failed) == {}
errorsOf(T, failed) == {[type |-> "ERROR", dir |-> T, name |-> n] : n \in failed}

\* saveOverlayPostCheckout, lines 3436-3440: a dry run changes nothing.
alwaysSaves(mode) == TRUE
savesPostCheckout(mode) == mode # "DryRun"

\* TreeInode::checkout once every action is over: the errors are recorded,
\* the directory's listing is invalidated when it was modified, and
\* TreeInode::saveOverlayPostCheckout: nothing in a dry run; else the
\* directory takes the hash tryToDematerialize gives, is saved, and tells its
\* parent when its state changed.
ckPost ==
  LET T == top.ino
      k == Len(ck.frames)
      result == dematerialized(dirs[T], top.to).treeHash
      stateChanged == result # dirs[T].treeHash
      tells == stateChanged /\ dirs[T].parent # 0 /\ ~dirs[T].unlinked
  IN
  /\ ck.stage = "inodeCheckout"
  /\ top.stage = "actions"
  /\ actionsDone(top)
  /\ conflicts' = conflicts \cup errorsOf(T, top.failed)
  /\ channel' = IF top.listModified THEN invalidateInode(channel, T) ELSE channel
  /\ IF ~savesPostCheckout(ck.mode) THEN
       /\ ck' = popFrame
       /\ UNCHANGED <<dirs, overlay>>
     ELSE
       /\ dirs' = [dirs EXCEPT ![T] = dematerialized(dirs[T], top.to)]
       /\ overlay' = saveOverlayDir(overlay, T, dirs[T].entries)
       /\ ck' = IF tells
                  THEN [ck EXCEPT !.frames[k].stage = "notify",
                                  !.frames[k].call = parentCall(dirs, T),
                                  !.frames[k].demat = result]
                  ELSE popFrame
  /\ crashPoints' = <<>>
  /\ UNCHANGED <<ovFiles, nextIno, uop, nops, journal>>
  /\ UNCHANGED <<parentState, renameMutex>>
  /\ UNCHANGED notTreeVars

\* TreeInode::childDematerialized(renameLock, childName, childScmHash), the
\* part under the contents lock.
childDematerializedNothingToDo(D, p, n, h) ==
  ~isMaterialized(D[p].entries[n]) /\ D[p].entries[n].hash = h

dirsAfterChildDematerialized(D, p, n, h) ==
  IF childDematerializedNothingToDo(D, p, n, h) THEN D
  ELSE [D EXCEPT ![p].entries[n].hash = h, ![p].treeHash = NoHash]

\* The parent is told, one directory per step: childDematerialized or
\* childMaterialized at the parent, childMaterialized above it.
ckNotify ==
  LET k == Len(ck.frames)
      p == top.call.p
      n == top.call.n
      h == top.demat
      over == \/ p = 0
              \/ h = NoHash /\ childMaterializedNothingToDo(dirs, p, n)
              \/ h # NoHash /\ childDematerializedNothingToDo(dirs, p, n, h)
      told == IF h = NoHash THEN dirsAfterChildMaterialized(dirs, p, n)
              ELSE dirsAfterChildDematerialized(dirs, p, n, h)
  IN
  /\ ck.stage = "inodeCheckout"
  /\ top.stage = "notify"
  /\ p # 0 => n \in DOMAIN dirs[p].entries
  /\ IF over THEN
       /\ ck' = popFrame
       /\ UNCHANGED <<dirs, overlay>>
     ELSE
       /\ dirs' = told
       /\ overlay' = saveOverlayDir(overlay, p, told[p].entries)
       /\ ck' = [ck EXCEPT !.frames[k].call = parentCall(dirs, p),
                           !.frames[k].demat = NoHash]
  /\ crashPoints' = <<>>
  /\ UNCHANGED <<ovFiles, nextIno, uop, conflicts, nops>>
  /\ UNCHANGED <<parentState, renameMutex>>
  /\ UNCHANGED <<journal, channel>>
  /\ UNCHANGED notTreeVars

\* EdenMount::flushInvalidations: when it is over the channel has sent
\* every invalidation that was queued.
notFlushed(ch) == ch
flushInvalidations(ch) == {}

\* CheckoutContext::finish(snapshotHash): the pending invalidations are
\* flushed; unless it is a dry run the parent commit becomes the target; the
\* rename lock is released.
ckFinish ==
  /\ ck.stage = "finish"
  /\ IF ck.mode = "DryRun"
       THEN UNCHANGED <<workingCopyParentRootId, checkedOutRootId>>
       ELSE /\ workingCopyParentRootId' = ck.to
            /\ checkedOutRootId' = ck.to
  /\ renameMutex' = 0
  /\ channel' = flushInvalidations(channel)
  /\ ck' = [ck EXCEPT !.stage = "ensure", !.flushed = channel \ channel']
  /\ crashPoints' = <<>>
  /\ UNCHANGED <<dirs, overlay, ovFiles, nextIno, uop, conflicts, nops>>
  /\ UNCHANGED checkoutInProgress
  /\ UNCHANGED journal
  /\ UNCHANGED notTreeVars

\* The ensure block of EdenMount::checkout clears the flag.
ckEnsure ==
  /\ ck.stage = "ensure"
  /\ checkoutInProgress' = FALSE
  /\ ck' = [ck EXCEPT !.stage = "journal"]
  /\ crashPoints' = <<>>
  /\ UNCHANGED <<dirs, overlay, ovFiles, nextIno, uop, conflicts, nops>>
  /\ UNCHANGED <<workingCopyParentRootId, checkedOutRootId, renameMutex>>
  /\ UNCHANGED <<journal, channel>>
  /\ UNCHANGED notTreeVars

\* Journal::recordUncleanPaths(fromHash, toHash, uncleanPaths) and
\* Journal::recordHashUpdate(fromHash, toHash): a record is appended.  (The
\* set of unclean paths, which the journal diff collects, is not modelled.)
recordUncleanPaths(j, from, to) ==
  Append(j, [kind |-> "UncleanPaths", from |-> from, to |-> to])
recordHashUpdate(j, from, to) ==
  Append(j, [kind |-> "HashUpdate", from |-> from, to |-> to])

\* The last block of EdenMount::checkout: the conflicts go to the caller,
\* and unless it is a dry run the journal entry is written.
ckJournal ==
  /\ ck.stage = "journal"
  /\ journal' = IF ck.mode = "DryRun" THEN journal
                ELSE recordUncleanPaths(journal, ck.from, ck.to)
  /\ ck' = NoCheckout
  /\ conflicts' = {}
  /\ crashPoints' = <<>>
  /\ UNCHANGED <<dirs, overlay, ovFiles, nextIno, uop, channel, nops>>
  /\ UNCHANGED <<parentState, renameMutex>>
  /\ UNCHANGED notTreeVars

\* EdenMount::resetParent(parent) between operations: no checkout is in
\* progress, and the working copy parent is set.
resetParentIdle(parent) ==
  /\ quiet
  /\ nops < MaxOps
  /\ ~checkoutInProgress
  /\ workingCopyParentRootId' = parent
  /\ journal' = recordHashUpdate(journal, workingCopyParentRootId, parent)
  /\ nops' = nops + 1
  /\ crashPoints' = <<>>
  /\ UNCHANGED <<dirs, overlay, ovFiles, nextIno, uop, ck, conflicts, channel>>
  /\ UNCHANGED <<checkoutInProgress, checkedOutRootId, renameMutex>>
  /\ UNCHANGED notTreeVars

TreeNext ==
  \/ \E p \in DOMAIN dirs, n \in Names : lookup(p, n)
  \/ \E p \in DOMAIN dirs, n \in Names : unload(p, n)
  \/ \E k \in {"create", "mkdir"}, d \in DOMAIN dirs, n \in Names : fsCreate(k, d, n)
  \/ fsMaterialize
  \/ fsChildMaterialized
  \/ fsInsert
  \/ \E d \in DOMAIN dirs, n \in FileNames, c \in WriteData : fsWrite(d, n, c)
  \/ fsFileMaterialize
  \/ fsFileParent
  \/ \E k \in {"unlink", "rmdir"}, d \in DOMAIN dirs, n \in Names : fsRemove(k, d, n)
  \/ fsLock
  \/ fsRemoveEntry
  \/ \E d \in DOMAIN dirs, d2 \in DOMAIN dirs, n \in FileNames, n2 \in FileNames :
        fsRename(d, n, d2, n2)
  \/ fsRenameEntries
  \/ \E d \in DOMAIN dirs, n \in Names : fsRemoveRecursively(d, n)
  \/ \E readsDir \in BOOLEAN : fsTryRemoveUnloadedChild(readsDir)
  \/ fsRemoveAllChildren
  \/ \E r \in RootIds, m \in CheckoutModes : ckBegin(r, m)
  \/ \E u \in BOOLEAN : ckStart(u)
  \/ ckCompute
  \/ \E n \in Names : ckAction(n)
  \/ \E n \in Names : ckActionFails(n)
  \/ ckPost
  \/ ckNotify
  \/ ckFinish
  \/ ckEnsure
  \/ ckJournal
  \/ \E r \in RootIds : resetParentIdle(r)

(***************************************************************************)
(* Part IV.  The diff of the working copy against a commit:                *)
(* EdenMount::diff, TreeInode::diff, TreeInode::computeDiff and the        *)
(* DeferredDiffEntry classes.  The ignore rules are not modelled: no       *)
(* directory of the model has a .gitignore file, and no name is hidden.    *)
(***************************************************************************)

\* No diff is running.
NoDiff == [stage |-> "idle", commit |-> NoHash, cancelled |-> FALSE,
           frames |-> <<>>, res |-> ""]

DiffInit ==
  /\ df = NoDiff
  /\ callbacks = {}

\* One call of TreeInode::diff(context, currentPath, tree, ...) on the loaded
\* TreeInode ino; tree is NoHash for a null Tree.  jobs are the
\* DeferredDiffEntry objects of computeDiff not yet complete, failed the
\* paths of those whose Future holds an exception.
DiffFrame(ino, path, tree) ==
  [ino |-> ino, path |-> path, tree |-> tree, stage |-> "diff", jobs |-> {},
   failed |-> {}]

dfTop == df.frames[Len(df.frames)]

\* A call of the DiffCallback.
callback(kind, path) == [kind |-> kind, path |-> path]

\* The check that opens TreeInode::diff's locked block: an unmaterialized
\* TreeInode with the hash of the Tree it is compared to has no changes.
diffShortCircuits(T, tree) ==
  dirs[T].treeHash # NoHash /\ tree # NoHash /\ dirs[T].treeHash = tree

\* computeDiff's walk of scEntries and inodeEntries: what processUntracked,
\* processRemoved and processBothPresent do with name n.  Each gives the
\* callbacks made under the lock and the DeferredDiffEntry queued, if any.
NoJob == [kind |-> "none", name |-> "", scm |-> NoScm, wd |-> NoHash]
DiffJob(kind, n, scm, wd) == [kind |-> kind, name |-> n, scm |-> scm, wd |-> wd]

processUntracked(T, path, n) ==
  LET e == dirs[T].entries[n]
  IN [cbs |-> {callback("added", Append(path, n))},
      job |-> IF ~e.isDir THEN NoJob
              ELSE IF e.loaded \/ isMaterialized(e)
                THEN DiffJob("untracked", n, NoScm, e.hash)
              ELSE DiffJob("addedScm", n, NoScm, e.hash)]

processRemoved(path, n, scm) ==
  [cbs |-> {callback("removed", Append(path, n))},
   job |-> IF scm.isDir THEN DiffJob("removedScm", n, scm, NoHash) ELSE NoJob]

\* processBothPresent without its skip of the unchanged unloaded entry: the
\* entry is compared as a blob or as a Tree like one whose hash differs.
processBothPresentNoSkip(T, path, n, scm) ==
  LET e == dirs[T].entries[n]
  IN IF e.loaded \/ isMaterialized(e)
       THEN [cbs |-> {}, job |-> DiffJob("modified", n, scm, e.hash)]
     ELSE [cbs |-> {callback("modified", Append(path, n))},
           job |-> IF e.isDir THEN DiffJob("scm", n, scm, e.hash) ELSE NoJob]

processBothPresent(T, path, n, scm) ==
  LET e == dirs[T].entries[n]
  IN IF e.loaded \/ isMaterialized(e)
       THEN [cbs |-> {}, job |-> DiffJob("modified", n, scm, e.hash)]
     ELSE IF e.isDir = scm.isDir /\ e.hash = scm.hash
       THEN [cbs |-> {}, job |-> NoJob]
     ELSE IF e.isDir
       THEN [cbs |-> {callback("modified", Append(path, n))},
             job |-> DiffJob("scm", n, scm, e.hash)]
     ELSE IF scm.isDir
       THEN [cbs |-> {callback("added", Append(path, n)),
                      callback("removed", Append(path, n))},
             job |-> DiffJob("removedScm", n, scm, NoHash)]
     ELSE [cbs |-> {}, job |-> DiffJob("blob", n, scm, e.hash)]

diffEntry(T, path, tree, n) ==
  IF n \notin DOMAIN getTree(tree) THEN processUntracked(T, path, n)
  ELSE IF n \notin DOMAIN dirs[T].entries THEN processRemoved(path, n, getTree(tree)[n])
  ELSE processBothPresent(T, path, n, getTree(tree)[n])

diffNames(T, tree) == DOMAIN dirs[T].entries \cup DOMAIN getTree(tree)

\* EdenMount::diff(callback, commitHash, listIgnored, enforceCurrentParent,
\* cancellation): the parent is checked if asked for, the root Tree is
\* fetched (the fetch may fail), and rootInode->diff is called.
diffBegin(commit, enforceCurrentParent, fetched) ==
  /\ df.stage = "idle"
  /\ quiet
  /\ callbacks' = {}
  /\ df' = IF enforceCurrentParent
              /\ (checkoutInProgress \/ workingCopyParentRootId # commit)
             THEN [NoDiff EXCEPT !.stage = "done", !.commit = commit, !.res = "error"]
           ELSE IF ~fetched
             THEN [NoDiff EXCEPT !.stage = "done", !.commit = commit, !.res = "error"]
           ELSE [NoDiff EXCEPT !.stage = "run", !.commit = commit,
                               !.frames = <<DiffFrame(RootIno, <<>>, commit)>>]
  /\ UNCHANGED treeVars
  /\ UNCHANGED notDiffVars

\* The Future of one TreeInode::diff call completes (always with success):
\* the DeferredDiffEntry that made the call is complete, and the root's
\* completion ends the diff.
diffPopFrame ==
  LET k == Len(df.frames)
  IN IF k = 1 THEN [df EXCEPT !.frames = <<>>, !.stage = "done", !.res = "ok"]
     ELSE [df EXCEPT !.frames = SubSeq(df.frames, 1, k - 1)]

\* TreeInode::diff up to the end of computeDiff's locked block: the token is
\* checked, then under the contents lock the short circuit is tried and the
\* entries are walked, which makes callbacks and queues DeferredDiffEntries.
diffCompute ==
  LET T == dfTop.ino
      k == Len(df.frames)
      walked == {diffEntry(T, dfTop.path, dfTop.tree, n) : n \in diffNames(T, dfTop.tree)}
  IN
  /\ df.stage = "run"
  /\ dfTop.stage = "diff"
  /\ IF df.cancelled \/ diffShortCircuits(T, dfTop.tree)
       THEN /\ df' = diffPopFrame
            /\ UNCHANGED callbacks
       ELSE /\ callbacks' = callbacks \cup UNION {w.cbs : w \in walked}
            /\ df' = [df EXCEPT !.frames[k].stage = "jobs",
                                !.frames[k].jobs = {w.job : w \in walked} \ {NoJob}]
  /\ UNCHANGED treeVars
  /\ UNCHANGED notDiffVars

\* diffTrees, diffAddedTree and diffRemovedTree compare source control Trees
\* only.  (The Trees they meet in the model hold files only.)  They make no
\* callback once the token is cancelled.
diffTrees(path, scmHash, wdHash) ==
  LET s == getTree(scmHash)
      w == getTree(wdHash)
  IN {callback("added", Append(path, n)) : n \in DOMAIN w \ DOMAIN s}
     \cup {callback("removed", Append(path, n)) : n \in DOMAIN s \ DOMAIN w}
     \cup {callback("modified", Append(path, n)) :
             n \in {m \in DOMAIN s \cap DOMAIN w : s[m] # w[m]}}
diffAddedTree(path, wdHash) == diffTrees(path, NoHash, wdHash)
diffRemovedTree(path, scmHash) == diffTrees(path, scmHash, NoHash)

\* FileInode::isSameAs(hash, type): the file's contents are those of the blob.
isSameAs(e, scm) == ~scm.isDir /\ fileData(e) = scm.hash

\* What DeferredDiffEntry::run does for job j of the TreeInode T, whose
\* child was loaded if it had to be (D is the inode tree after the load):
\* the callbacks it makes, and the TreeInode::diff call it ends with, if any
\* (push, with the Tree to compare to).
NoPush == [push |-> FALSE, tree |-> NoHash]
runJob(D, T, path, j, cancelled) ==
  LET e == D[T].entries[j.name]
      p == Append(path, j.name)
  IN CASE j.kind = "untracked" ->
            [cbs |-> {}, push |-> TRUE, tree |-> NoHash]
       [] j.kind = "modified" /\ j.scm.isDir /\ ~e.isDir ->
            [cbs |-> {callback("added", p), callback("removed", p)}
                       \cup IF cancelled THEN {} ELSE diffRemovedTree(p, j.scm.hash),
             push |-> FALSE, tree |-> NoHash]
       [] j.kind = "modified" /\ j.scm.isDir /\ e.isDir ->
            IF D[e.ino].treeHash = NoHash
              THEN [cbs |-> {}, push |-> TRUE, tree |-> j.scm.hash]
            ELSE IF D[e.ino].treeHash = j.scm.hash
              THEN [cbs |-> {}, push |-> FALSE, tree |-> NoHash]
            ELSE [cbs |-> {callback("modified", p)}
                            \cup IF cancelled THEN {}
                                 ELSE diffTrees(p, j.scm.hash, D[e.ino].treeHash),
                  push |-> FALSE, tree |-> NoHash]
       [] j.kind = "modified" /\ ~j.scm.isDir /\ e.isDir ->
            [cbs |-> {callback("removed", p), callback("added", p)},
             push |-> TRUE, tree |-> NoHash]
       [] j.kind = "modified" /\ ~j.scm.isDir /\ ~e.isDir ->
            [cbs |-> IF isSameAs(e, j.scm) THEN {} ELSE {callback("modified", p)},
             push |-> FALSE, tree |-> NoHash]
       [] j.kind = "blob" ->
            [cbs |-> IF j.scm.hash # j.wd THEN {callback("modified", p)} ELSE {},
             push |-> FALSE, tree |-> NoHash]
       [] j.kind = "scm" ->
            [cbs |-> IF cancelled THEN {} ELSE diffTrees(p, j.scm.hash, j.wd),
             push |-> FALSE, tree |-> NoHash]
       [] j.kind = "addedScm" ->
            [cbs |-> IF cancelled THEN {} ELSE diffAddedTree(p, j.wd),
             push |-> FALSE, tree |-> NoHash]
       [] OTHER ->
            [cbs |-> IF cancelled THEN {} ELSE diffRemovedTree(p, j.scm.hash),
             push |-> FALSE, tree |-> NoHash]

\* The job waits for an inode: the one loadChildLocked started loading.
awaitsInode(T, j) ==
  /\ j.kind \in {"untracked", "modified"}
  /\ ~dirs[T].entries[j.name].loaded

\* DeferredDiffEntry::run of job j completes: the child inode is there, the
\* callbacks are made, and a TreeInode::diff call it ends with begins.
diffRun(j) ==
  LET T == dfTop.ino
      k == Len(df.frames)
      loads == awaitsInode(T, j)
      D == IF loads THEN dirsAfterLoad(T, j.name) ELSE dirs
      r == runJob(D, T, dfTop.path, j, df.cancelled)
      done == [df EXCEPT !.frames[k].jobs = @ \ {j}]
  IN
  /\ df.stage = "run"
  /\ dfTop.stage = "jobs"
  /\ j \in dfTop.jobs
  /\ dirs' = D
  /\ overlay' = IF loads THEN overlayAfterLoad(T, j.name) ELSE overlay
  /\ nextIno' = IF loads THEN nextInoAfterLoad(T, j.name) ELSE nextIno
  /\ callbacks' = callbacks \cup r.cbs
  /\ df' = IF r.push
             THEN [done EXCEPT !.frames = Append(done.frames,
                      DiffFrame(D[T].entries[j.name].ino,
                                Append(dfTop.path, j.name), r.tree))]
             ELSE done
  /\ crashPoints' = <<>>
  /\ UNCHANGED <<ovFiles, uop, ck, conflicts, journal, channel, nops>>
  /\ UNCHANGED notDiffVars

\* The Future of job j completes with an exception: the load of the inode,
\* or a fetch from the ObjectStore, failed.
diffRunFails(j) ==
  LET k == Len(df.frames)
  IN
  /\ df.stage = "run"
  /\ dfTop.stage = "jobs"
  /\ j \in dfTop.jobs
  /\ df' = [df EXCEPT !.frames[k].jobs = @ \ {j},
                      !.frames[k].failed = @ \cup {Append(dfTop.path, j.name)}]
  /\ UNCHANGED callbacks
  /\ UNCHANGED treeVars
  /\ UNCHANGED notDiffVars

\* The continuation of collectAll(deferredFutures) in computeDiff:
\* diffError is called for each job that failed, and success is reported.
diffErrorsDropped(failed) == {}
diffErrors(failed) == {callback("error", p) : p \in failed}

diffCollect ==
  /\ df.stage = "run"
  /\ dfTop.stage = "jobs"
  /\ dfTop.jobs = {}
  /\ callbacks' = callbacks \cup diffErrors(dfTop.failed)
  /\ df' = diffPopFrame
  /\ UNCHANGED treeVars
  /\ UNCHANGED notDiffVars

\* The caller's request goes away: the CancellationToken is cancelled.
diffCancel ==
  /\ df.stage = "run"
  /\ ~df.cancelled
  /\ df' = [df EXCEPT !.cancelled = TRUE]
  /\ UNCHANGED callbacks
  /\ UNCHANGED treeVars
  /\ UNCHANGED notDiffVars

\* The caller takes the result.
diffReturn ==
  /\ df.stage = "done"
  /\ df' = NoDiff
  /\ callbacks' = {}
  /\ UNCHANGED treeVars
  /\ UNCHANGED notDiffVars

\* The diff runs between the operations of the file system, which change
\* the working copy; no checkout runs.
DiffNext ==
  \/ /\ df.stage = "idle"
     /\ \/ \E p \in DOMAIN dirs, n \in Names : lookup(p, n)
        \/ \E p \in DOMAIN dirs, n \in Names : unload(p, n)
        \/ \E k \in {"create", "mkdir"}, d \in DOMAIN dirs, n \in Names : fsCreate(k, d, n)
        \/ fsMaterialize
        \/ fsChildMaterialized
        \/ fsInsert
        \/ \E d \in DOMAIN dirs, n \in FileNames, c \in WriteData : fsWrite(d, n, c)
        \/ fsFileMaterialize
        \/ fsFileParent
        \/ \E k \in {"unlink", "rmdir"}, d \in DOMAIN dirs, n \in Names : fsRemove(k, d, n)
        \/ fsLock
        \/ fsRemoveEntry
        \/ \E d \in DOMAIN dirs, d2 \in DOMAIN dirs, n \in FileNames, n2 \in FileNames :
              fsRename(d, n, d2, n2)
        \/ fsRenameEntries
        \/ \E d \in DOMAIN dirs, n \in Names : fsRemoveRecursively(d, n)
        \/ \E readsDir \in BOOLEAN : fsTryRemoveUnloadedChild(readsDir)
        \/ fsRemoveAllChildren
        \/ \E r \in RootIds : resetParentIdle(r)
  \/ \E r \in RootIds, enforce \in BOOLEAN, fetched \in BOOLEAN : diffBegin(r, enforce, fetched)
  \/ diffCompute
  \/ df.stage = "run" /\ \E j \in dfTop.jobs : diffRun(j)
  \/ df.stage = "run" /\ \E j \in dfTop.jobs : diffRunFails(j)
  \/ diffCollect
  \/ diffCancel
  \/ diffReturn

(***************************************************************************)
(* Part V.  The locks of the inode tree: EdenMount::renameMutex_, the      *)
(* contents_ lock of each TreeInode and the InodeMap's lock, as rename,    *)
(* unlink, rmdir, getOrLoadChild, unloadChildrenIf and checkout take them. *)
(* A step is one acquisition or one release of a lock, or what an          *)
(* operation does between two of them.  A file system thread and a         *)
(* checkout thread run side by side.                                       *)
(***************************************************************************)

MaxLockOps == 2

LockThreads == {FsThread, CheckoutThread}
LockNames == {"a", "d", "e"}

\* RenameLock is a std::unique_lock of renameMutex_, SharedRenameLock a
\* std::shared_lock; contents_ is a folly::Synchronized (wlock, rlock).
RenameLock == [kind |-> "rename", ino |-> 0, mode |-> "exclusive"]
SharedRenameLock == [kind |-> "rename", ino |-> 0, mode |-> "shared"]
wlock(i) == [kind |-> "contents", ino |-> i, mode |-> "exclusive"]
rlock(i) == [kind |-> "contents", ino |-> i, mode |-> "shared"]
InodeMapLock == [kind |-> "inodeMap", ino |-> 0, mode |-> "exclusive"]

\* What a thread does next with a lock.
Acq(l) == [do |-> "acquire", lock |-> l]
Rel(l) == [do |-> "release", lock |-> l]

NoLockOp == [kind |-> "none", stage |-> "idle", next |-> "idle", todo |-> <<>>,
             src |-> 0, name |-> "", dest |-> 0, destName |-> "", child |-> 0,
             stack |-> <<>>, loads |-> {}, res |-> ""]

LockEntry(ino, isDir, loaded) == [ino |-> ino, isDir |-> isDir, loaded |-> loaded]

\* The tree at the start: / holds the directory d and the file a, /d holds
\* the directory d and the file a; every TreeInode is loaded, no file is.
LockInit ==
  /\ itree = [i \in 1..3 |->
       CASE i = 1 -> [parent |-> 0, name |-> "",
                      entries |-> [n \in {"a", "d"} |->
                         IF n = "a" THEN LockEntry(4, FALSE, FALSE)
                         ELSE LockEntry(2, TRUE, TRUE)]]
         [] i = 2 -> [parent |-> 1, name |-> "d",
                      entries |-> [n \in {"a", "d"} |->
                         IF n = "a" THEN LockEntry(5, FALSE, FALSE)
                         ELSE LockEntry(3, TRUE, TRUE)]]
         [] i = 3 -> [parent |-> 2, name |-> "d", entries |-> <<>>]]
  /\ held = [t \in LockThreads |-> <<>>]
  /\ lop = [t \in LockThreads |-> NoLockOp]
  /\ lnops = 0

\* The TreeInodes from i up to the root, i first (InodeBase::getParent).
RECURSIVE chainOf(_, _)
chainOf(T, i) == IF i = 0 THEN <<>> ELSE <<i>> \o chainOf(T, T[i].parent)

\* isAncestor(renameLock, a, b): a is a parent, grandparent, ... of b.
isAncestor(a, b) ==
  \E k \in 2..Len(chainOf(itree, b)) : chainOf(itree, b)[k] = a

\* The TreeInode i is loaded: it is the root, or its parent's entry points
\* to it.
treeLoaded(i) ==
  \/ i = RootIno
  \/ /\ i \in DOMAIN itree
     /\ itree[i].parent \in DOMAIN itree
     /\ itree[i].name \in DOMAIN itree[itree[i].parent].entries
     /\ itree[itree[i].parent].entries[itree[i].name].ino = i
     /\ itree[itree[i].parent].entries[itree[i].name].loaded

loadedTrees == {i \in DOMAIN itree : treeLoaded(i)}

\* The inodes an operation in flight holds a pointer to.
pinned == UNION {{lop[t].src, lop[t].dest, lop[t].child}
                   \cup {lop[t].stack[k].ino : k \in 1..Len(lop[t].stack)} :
                 t \in LockThreads}

\* A mutex that keeps nobody out.
compatibleAlways(l, m) == TRUE

\* folly::SharedMutex: two holders go together only when both are shared.
compatible(l, m) ==
  l.kind # m.kind \/ l.ino # m.ino \/ (l.mode = "shared" /\ m.mode = "shared")

canAcquire(t, l) ==
  \A u \in LockThreads \ {t} : \A k \in 1..Len(held[u]) : compatible(l, held[u][k])

holds(t, l) == \E k \in 1..Len(held[t]) : held[t][k] = l

\* The thread takes the next lock of its operation, when it can.
lkAcquire(t) ==
  /\ lop[t].todo # <<>>
  /\ Head(lop[t].todo).do = "acquire"
  /\ canAcquire(t, Head(lop[t].todo).lock)
  /\ held' = [held EXCEPT ![t] = Append(@, Head(lop[t].todo).lock)]
  /\ lop' = [lop EXCEPT ![t].todo = Tail(@)]
  /\ UNCHANGED <<itree, lnops>>
  /\ UNCHANGED notLockVars

\* The thread lets go of a lock: a guard goes out of scope, or unlock().
lkRelease(t) ==
  /\ lop[t].todo # <<>>
  /\ Head(lop[t].todo).do = "release"
  /\ held' = [held EXCEPT ![t] =
                SelectSeq(@, LAMBDA l : l # Head(lop[t].todo).lock)]
  /\ lop' = [lop EXCEPT ![t].todo = Tail(@)]
  /\ UNCHANGED <<itree, lnops>>
  /\ UNCHANGED notLockVars

\* Every lock the thread holds is released, the rename lock last.
releaseAll(t) ==
  LET n == Len(held[t]) IN [k \in 1..n |-> Rel(held[t][n + 1 - k])]

\* The operation is over.
lkReturn(t) ==
  /\ lop[t].stage = "done"
  /\ lop[t].todo = <<>>
  /\ lop' = [lop EXCEPT ![t] = NoLockOp]
  /\ UNCHANGED <<itree, held, lnops>>
  /\ UNCHANGED notLockVars

\* The stage of the operation is s and it has no lock left to take or to
\* release before it goes on.
at(t, s) == lop[t].stage = s /\ lop[t].todo = <<>>

\* The operation ends with result r once the locks it holds are released.
ending(t, r) ==
  [lop[t] EXCEPT !.stage = "done", !.todo = releaseAll(t), !.res = r]

\* One contents lock taken and released.
touch(i) == <<Acq(wlock(i)), Rel(wlock(i))>>

RECURSIVE touchAll(_)
touchAll(s) == IF s = <<>> THEN <<>> ELSE touch(Head(s)) \o touchAll(Tail(s))

\* TreeInode::materialize(&renameLock) and the childMaterialized calls that
\* follow: the contents lock of the TreeInode, then of its parent, and so
\* on, one at a time, up to the first of them (the k-th) that is
\* materialized already.
materializeLocks(i, k) == touchAll(SubSeq(chainOf(itree, i), 1, k))

\* getOrFindChild with loadInodes, up to contents.unlock(): the parent's
\* contents lock, and InodeMap::shouldLoadChild under it.
loadLocks(p) ==
  <<Acq(wlock(p)), Acq(InodeMapLock), Rel(InodeMapLock), Rel(wlock(p))>>

\* The operation waits for the loads it asked for (lop[t].loads): the entry
\* `name` of p for each <<p, name>>.  It holds no contents lock meanwhile;
\* then TreeInode::inodeLoadComplete takes the parent's contents lock and
\* InodeMap::inodeLoadComplete the InodeMap's.
lkAwait(t) ==
  LET o == lop[t]
      pl == CHOOSE x \in o.loads : TRUE
  IN
  /\ at(t, "await")
  /\ lop' = IF o.loads = {}
              THEN [lop EXCEPT ![t].stage = o.next,
                               ![t].todo = IF o.next = "materialize"
                                             THEN <<Acq(RenameLock)>> ELSE <<>>]
              ELSE [lop EXCEPT ![t].stage = "link",
                               ![t].todo = <<Acq(wlock(pl[1])), Acq(InodeMapLock)>>]
  /\ UNCHANGED <<itree, held, lnops>>
  /\ UNCHANGED notLockVars

\* With both locks held the loaded inode is linked into its DirEntry.
lkLink(t) ==
  LET o == lop[t]
      pl == CHOOSE x \in o.loads : TRUE
  IN
  /\ at(t, "link")
  /\ itree' = IF pl[2] \in DOMAIN itree[pl[1]].entries
                THEN [itree EXCEPT ![pl[1]].entries[pl[2]].loaded = TRUE]
                ELSE itree
  /\ lop' = [lop EXCEPT ![t].stage = "await",
                        ![t].loads = o.loads \ {pl},
                        ![t].todo = <<Rel(InodeMapLock), Rel(wlock(pl[1]))>>]
  /\ UNCHANGED <<held, lnops>>
  /\ UNCHANGED notLockVars

\* TreeInode::getOrLoadChild(name) of loaded TreeInode p, the child not
\* loaded.
lkLoad(t, p, name) ==
  /\ t = FsThread
  /\ lop[t].stage = "idle"
  /\ lnops < MaxLockOps
  /\ p \in loadedTrees
  /\ name \in DOMAIN itree[p].entries
  /\ ~itree[p].entries[name].loaded
  /\ lop' = [lop EXCEPT ![t] =
       [NoLockOp EXCEPT !.kind = "load", !.stage = "await", !.next = "done",
                        !.src = p, !.name = name, !.todo = loadLocks(p),
                        !.loads = {<<p, name>>}, !.res = "ok"]]
  /\ lnops' = lnops + 1
  /\ UNCHANGED <<itree, held>>
  /\ UNCHANGED notLockVars

\* TreeInode::rename(name, destParent, destName) on loaded TreeInode src:
\* acquireRenameLock comes first.
lkRename(t, src, name, dest, destName) ==
  /\ t = FsThread
  /\ lop[t].stage = "idle"
  /\ lnops < MaxLockOps
  /\ src \in loadedTrees
  /\ dest \in loadedTrees
  /\ lop' = [lop EXCEPT ![t] =
       [NoLockOp EXCEPT !.kind = "rename", !.stage = "materialize",
                        !.next = "materialize", !.todo = <<Acq(RenameLock)>>,
                        !.src = src, !.name = name, !.dest = dest,
                        !.destName = destName]]
  /\ lnops' = lnops + 1
  /\ UNCHANGED <<itree, held>>
  /\ UNCHANGED notLockVars

\* With the rename lock held: materialize(&renameLock) of the source
\* directory and, for rename, of the destination directory when it is
\* another one; tryRemoveChild then locks the directory.
lkMaterialize(t, k, k2) ==
  LET o == lop[t] IN
  /\ at(t, "materialize")
  /\ k \in 1..Len(chainOf(itree, o.src))
  /\ IF o.kind = "rename" /\ o.dest # o.src
       THEN k2 \in 1..Len(chainOf(itree, o.dest))
       ELSE k2 = 1
  /\ lop' = IF o.kind = "rename"
       THEN [lop EXCEPT ![t].stage = "acquireLocks",
                        ![t].todo = materializeLocks(o.src, k) \o
                                    (IF o.dest # o.src
                                       THEN materializeLocks(o.dest, k2)
                                       ELSE <<>>)]
       ELSE [lop EXCEPT ![t].stage = "tryRemove",
                        ![t].todo = materializeLocks(o.src, k) \o
                                    <<Acq(wlock(o.src))>>]
  /\ UNCHANGED <<itree, held, lnops>>
  /\ UNCHANGED notLockVars

\* The destination directory always first.
acquireLocksDestFirst(src, dest) ==
  IF src = dest THEN <<Acq(wlock(src))>>
  ELSE IF isAncestor(src, dest) THEN <<Acq(wlock(dest)), Acq(wlock(src))>>
  ELSE <<Acq(wlock(dest))>>

\* TreeRenameLocks::acquireLocks up to the lock of the destination
\* directory: the one directory when source and destination are the same;
\* the source first when it is an ancestor of the destination; in all other
\* cases the destination.
acquireLocksFirst(src, dest) ==
  IF src = dest THEN <<Acq(wlock(src))>>
  ELSE IF isAncestor(src, dest) THEN <<Acq(wlock(src)), Acq(wlock(dest))>>
  ELSE <<Acq(wlock(dest))>>

lkAcquireLocks(t) ==
  /\ at(t, "acquireLocks")
  /\ lop' = [lop EXCEPT ![t].stage = "lockDestChild",
                        ![t].todo = acquireLocksFirst(lop[t].src, lop[t].dest)]
  /\ UNCHANGED <<itree, held, lnops>>
  /\ UNCHANGED notLockVars

destChildExists(dest, destName) == destName \in DOMAIN itree[dest].entries

\* The destination child is never locked.
lockDestChildNever(dest, destName) == <<>>

\* TreeRenameLocks::lockDestChild: the destination child is locked when it
\* exists, is a directory and is loaded.
lockDestChild(dest, destName) ==
  IF /\ destChildExists(dest, destName)
     /\ itree[dest].entries[destName].isDir
     /\ itree[dest].entries[destName].loaded
    THEN <<Acq(wlock(itree[dest].entries[destName].ino))>>
    ELSE <<>>

\* The end of TreeRenameLocks::acquireLocks: in the third case the source
\* directory is locked last, unless it is the destination child.
acquireLocksLast(src, dest, destName) ==
  IF src = dest \/ isAncestor(src, dest) THEN <<>>
  ELSE IF /\ destChildExists(dest, destName)
          /\ itree[dest].entries[destName].loaded
          /\ itree[dest].entries[destName].ino = src
    THEN <<>>
  ELSE <<Acq(wlock(src))>>

lkLockDestChild(t) ==
  LET o == lop[t] IN
  /\ at(t, "lockDestChild")
  /\ lop' = [lop EXCEPT ![t].stage = "rename",
                        ![t].todo = lockDestChild(o.dest, o.destName) \o
                                    acquireLocksLast(o.src, o.dest, o.destName)]
  /\ UNCHANGED <<itree, held, lnops>>
  /\ UNCHANGED notLockVars

\* The inode pointer of a DirEntry (DirEntry::getInode): null when the
\* inode is not loaded.
inodeOf(e) == IF e.loaded THEN e.ino ELSE 0

\* The checks of TreeInode::rename and TreeInode::doRename with the locks
\* held.  destChildIsEmpty() reads destChildContents_, which is null when
\* the destination child is not loaded: either answer (nullEmpty) may come
\* of it.
renameResult(o, nullEmpty) ==
  LET S == itree[o.src].entries
      D == itree[o.dest].entries
      se == S[o.name]
      de == D[o.destName]
      exists == o.destName \in DOMAIN D
      destChildIsEmpty == IF de.isDir /\ de.loaded
                            THEN DOMAIN itree[de.ino].entries = {}
                            ELSE nullEmpty
  IN IF o.name \notin DOMAIN S THEN "ENOENT"
     ELSE IF se.isDir /\ exists /\ ~de.isDir THEN "ENOTDIR"
     ELSE IF se.isDir /\ exists /\ inodeOf(de) # inodeOf(se) /\ ~destChildIsEmpty
       THEN "ENOTEMPTY"
     ELSE IF ~se.isDir /\ exists /\ de.isDir THEN "EISDIR"
     ELSE IF ~se.loaded \/ (exists /\ ~de.loaded) THEN "load"
     ELSE IF exists /\ de.ino = se.ino THEN "same"
     ELSE IF se.isDir /\ (se.ino = o.dest \/ isAncestor(se.ino, o.dest))
       THEN "EINVAL"
     ELSE "renamed"

\* The tree after doRename moved the entry: the destination child, if any,
\* is unlinked, the entry moves, and the moved inode is told its location
\* (InodeBase::updateLocation).
treeAfterRename(o) ==
  LET se == itree[o.src].entries[o.name]
      gone == IF /\ o.destName \in DOMAIN itree[o.dest].entries
                 /\ itree[o.dest].entries[o.destName].isDir
                THEN {itree[o.dest].entries[o.destName].ino} ELSE {}
      taken == [itree EXCEPT ![o.src].entries = without(@, o.name)]
      moved == [taken EXCEPT ![o.dest].entries = with(@, o.destName, se)]
      told == IF se.isDir
                THEN [moved EXCEPT ![se.ino].parent = o.dest,
                                   ![se.ino].name = o.destName]
                ELSE moved
  IN [i \in DOMAIN told \ gone |-> told[i]]

\* TreeInode::rename after acquireLocks, and TreeInode::doRename.  When the
\* source or the destination child is not loaded the locks are released,
\* getOrLoadChild is called for each, and rename starts again.
lkDoRename(t, nullEmpty) ==
  LET o == lop[t]
      r == renameResult(o, nullEmpty)
      se == itree[o.src].entries[o.name]
      needSrc == ~se.loaded
      needDest == /\ o.destName \in DOMAIN itree[o.dest].entries
                  /\ ~itree[o.dest].entries[o.destName].loaded
  IN
  /\ at(t, "rename")
  /\ IF r = "renamed" THEN
       /\ itree' = treeAfterRename(o)
       /\ lop' = [lop EXCEPT ![t] = ending(t, "ok")]
     ELSE IF r = "load" THEN
       /\ lop' = [lop EXCEPT
            ![t].stage = "await",
            ![t].todo = releaseAll(t)
                        \o (IF needSrc THEN loadLocks(o.src) ELSE <<>>)
                        \o (IF needDest THEN loadLocks(o.dest) ELSE <<>>),
            ![t].loads = (IF needSrc THEN {<<o.src, o.name>>} ELSE {})
                         \cup (IF needDest THEN {<<o.dest, o.destName>>} ELSE {})]
       /\ UNCHANGED itree
     ELSE
       /\ lop' = [lop EXCEPT ![t] = ending(t, IF r = "same" THEN "ok" ELSE r)]
       /\ UNCHANGED itree
  /\ UNCHANGED <<held, lnops>>
  /\ UNCHANGED notLockVars

\* TreeInode::unlink(name) / TreeInode::rmdir(name) on loaded TreeInode p:
\* getOrLoadChild(name), then removeImpl with the child.
lkRemove(t, kind, p, name) ==
  /\ t = FsThread
  /\ lop[t].stage = "idle"
  /\ lnops < MaxLockOps
  /\ p \in loadedTrees
  /\ name \in DOMAIN itree[p].entries
  /\ lop' = [lop EXCEPT ![t] =
       IF itree[p].entries[name].loaded
         THEN [NoLockOp EXCEPT !.kind = kind, !.stage = "preRemove",
                               !.next = "preRemove", !.src = p, !.name = name]
         ELSE [NoLockOp EXCEPT !.kind = kind, !.stage = "await",
                               !.next = "preRemove", !.src = p, !.name = name,
                               !.todo = loadLocks(p), !.loads = {<<p, name>>}]]
  /\ lnops' = lnops + 1
  /\ UNCHANGED <<itree, held>>
  /\ UNCHANGED notLockVars

\* removeImpl before the rename lock: the type check on the child it was
\* given, and checkPreRemove(child), which locks a directory's contents.
lkPreRemove(t) ==
  LET o == lop[t]
      e == itree[o.src].entries[o.name]
  IN
  /\ at(t, "preRemove")
  /\ lop' = IF o.name \notin DOMAIN itree[o.src].entries
              THEN [lop EXCEPT ![t] = ending(t, "ENOENT")]
            ELSE IF e.isDir # (o.kind = "rmdir")
              THEN [lop EXCEPT ![t] =
                      ending(t, IF o.kind = "rmdir" THEN "ENOTDIR" ELSE "EISDIR")]
            ELSE IF e.isDir
              THEN [lop EXCEPT ![t].stage = "checkPreRemove", ![t].child = e.ino,
                               ![t].todo = <<Acq(rlock(e.ino))>>]
            ELSE [lop EXCEPT ![t].stage = "materialize", ![t].child = e.ino,
                             ![t].todo = <<Acq(RenameLock)>>]
  /\ UNCHANGED <<itree, held, lnops>>
  /\ UNCHANGED notLockVars

\* checkPreRemove(const TreeInodePtr&) with the child's contents lock held:
\* ENOTEMPTY unless the child is empty.  The lock is released on return;
\* removeImpl takes the rename lock next, tryRemoveChild erases the entry.
lkCheckPreRemove(t) ==
  LET o == lop[t] IN
  /\ at(t, "checkPreRemove")
  /\ lop' = IF DOMAIN itree[o.child].entries # {}
              THEN [lop EXCEPT ![t] = ending(t, "ENOTEMPTY")]
            ELSE IF holds(t, RenameLock)
              THEN [lop EXCEPT ![t].stage = "erase",
                               ![t].todo = <<Rel(rlock(o.child))>>]
            ELSE [lop EXCEPT ![t].stage = "materialize",
                             ![t].todo = <<Rel(rlock(o.child)), Acq(RenameLock)>>]
  /\ UNCHANGED <<itree, held, lnops>>
  /\ UNCHANGED notLockVars

\* TreeInode::tryRemoveChild(renameLock, name, nullptr) with the contents
\* lock of the directory held: ENOENT when the name is gone; EBADF when the
\* entry's inode is not loaded, and removeImpl releases the locks, loads it
\* and starts again; the type check; checkPreRemove.
lkTryRemove(t) ==
  LET o == lop[t]
      e == itree[o.src].entries[o.name]
  IN
  /\ at(t, "tryRemove")
  /\ lop' = IF o.name \notin DOMAIN itree[o.src].entries
              THEN [lop EXCEPT ![t] = ending(t, "ENOENT")]
            ELSE IF ~e.loaded
              THEN [lop EXCEPT ![t].stage = "await",
                               ![t].todo = releaseAll(t) \o loadLocks(o.src),
                               ![t].loads = {<<o.src, o.name>>}]
            ELSE IF e.isDir # (o.kind = "rmdir")
              THEN [lop EXCEPT ![t] =
                      ending(t, IF o.kind = "rmdir" THEN "ENOTDIR" ELSE "EISDIR")]
            ELSE IF e.isDir
              THEN [lop EXCEPT ![t].stage = "checkPreRemove", ![t].child = e.ino,
                               ![t].todo = <<Acq(rlock(e.ino))>>]
            ELSE [lop EXCEPT ![t].stage = "erase", ![t].child = e.ino]
  /\ UNCHANGED <<itree, held, lnops>>
  /\ UNCHANGED notLockVars

\* The end of tryRemoveChild: the child is marked unlinked and its entry is
\* erased.
lkErase(t) ==
  LET o == lop[t]
      erased == [itree EXCEPT ![o.src].entries = without(@, o.name)]
  IN
  /\ at(t, "erase")
  /\ itree' = [i \in DOMAIN erased \ {o.child} |-> erased[i]]
  /\ lop' = [lop EXCEPT ![t] = [ending(t, "ok") EXCEPT !.child = 0]]
  /\ UNCHANGED <<held, lnops>>
  /\ UNCHANGED notLockVars

\* The loaded directories among the entries of TreeInode i (getTreeChildren).
treeChildren(i) ==
  {itree[i].entries[n].ino : n \in {m \in DOMAIN itree[i].entries :
      itree[i].entries[m].isDir /\ itree[i].entries[m].loaded}}

\* The TreeInodes to visit, as stack frames in the state `phase`.
RECURSIVE framesOf(_, _)
framesOf(S, phase) ==
  IF S = {} THEN <<>>
  ELSE LET i == CHOOSE x \in S : \A y \in S : x <= y
       IN <<[ino |-> i, phase |-> phase]>> \o framesOf(S \ {i}, phase)

\* EdenMount's periodic unload: unloadChildrenLastAccessedBefore on the
\* root.
lkUnload(t) ==
  /\ t = FsThread
  /\ lop[t].stage = "idle"
  /\ lnops < MaxLockOps
  /\ lop' = [lop EXCEPT ![t] =
       [NoLockOp EXCEPT !.kind = "unload", !.stage = "walk", !.res = "ok",
                        !.stack = <<[ino |-> RootIno, phase |-> "enter"]>>]]
  /\ lnops' = lnops + 1
  /\ UNCHANGED <<itree, held>>
  /\ UNCHANGED notLockVars

\* EdenMount::checkout from acquireRenameLock on;
\* unloadChildrenUnreferencedByFs on the root comes next.
lkCheckout(t) ==
  /\ t = CheckoutThread
  /\ lop[t].stage = "idle"
  /\ lnops < MaxLockOps
  /\ lop' = [lop EXCEPT ![t] =
       [NoLockOp EXCEPT !.kind = "checkout", !.stage = "walk",
                        !.todo = <<Acq(RenameLock)>>, !.res = "ok",
                        !.stack = <<[ino |-> RootIno, phase |-> "enter"]>>]]
  /\ lnops' = lnops + 1
  /\ UNCHANGED <<itree, held>>
  /\ UNCHANGED notLockVars

\* unloadChildrenUnreferencedByFs / unloadChildrenLastAccessedBefore on the
\* TreeInode on ltop of the stack: getTreeChildren reads its entries under
\* the read lock; once its children are done, unloadChildrenIf takes its
\* contents lock and then the InodeMap's (lockForUnload).  After the root,
\* the unload is over and the checkout goes on to TreeInode::checkout.
lkWalk(t) ==
  LET o == lop[t]
      ltop == Head(o.stack)
  IN
  /\ at(t, "walk")
  /\ lop' = IF o.stack = <<>>
              THEN IF o.kind = "checkout"
                     THEN [lop EXCEPT ![t].stage = "checkout",
                                      ![t].stack = <<[ino |-> RootIno,
                                                      phase |-> "compute"]>>]
                     ELSE [lop EXCEPT ![t].stage = "done"]
            ELSE IF ltop.phase = "enter"
              THEN [lop EXCEPT ![t].stage = "scan",
                               ![t].todo = <<Acq(rlock(ltop.ino))>>]
            ELSE [lop EXCEPT ![t].stage = "sweep",
                             ![t].todo = <<Acq(wlock(ltop.ino)), Acq(InodeMapLock)>>]
  /\ UNCHANGED <<itree, held, lnops>>
  /\ UNCHANGED notLockVars

\* getTreeChildren with the read lock held: the loaded child directories
\* are visited first.
lkScan(t) ==
  LET o == lop[t]
      ltop == Head(o.stack)
  IN
  /\ at(t, "scan")
  /\ lop' = [lop EXCEPT ![t].stage = "walk",
                        ![t].todo = <<Rel(rlock(ltop.ino))>>,
                        ![t].stack = framesOf(treeChildren(ltop.ino), "enter")
                                     \o <<[ltop EXCEPT !.phase = "leave"]>>
                                     \o Tail(o.stack)]
  /\ UNCHANGED <<itree, held, lnops>>
  /\ UNCHANGED notLockVars

\* unloadChildrenIf with both locks held: a loaded child that nothing
\* points to (a directory with a loaded child is pointed to by that child)
\* is unloaded.
lkSweep(t) ==
  LET o == lop[t]
      T == Head(o.stack).ino
      goes(e) == /\ e.loaded
                 /\ e.ino \notin pinned
                 /\ e.isDir => \A m \in DOMAIN itree[e.ino].entries :
                                  ~itree[e.ino].entries[m].loaded
  IN
  /\ at(t, "sweep")
  /\ itree' = [itree EXCEPT ![T].entries =
                 [n \in DOMAIN @ |->
                    IF goes(@[n]) THEN [@[n] EXCEPT !.loaded = FALSE] ELSE @[n]]]
  /\ lop' = [lop EXCEPT ![t].stage = "walk",
                        ![t].todo = <<Rel(InodeMapLock), Rel(wlock(T))>>,
                        ![t].stack = Tail(o.stack)]
  /\ UNCHANGED <<held, lnops>>
  /\ UNCHANGED notLockVars

RECURSIVE repeat(_, _)
repeat(s, n) == IF n = 0 THEN <<>> ELSE s \o repeat(s, n - 1)

\* The contents lock is kept when the plan is made.
computeCheckoutActionsKeepsLock(T, n) ==
  repeat(<<Acq(InodeMapLock), Rel(InodeMapLock)>>, n)

\* What TreeInode::computeCheckoutActions does with locks once it holds the
\* contents lock of T: loadChildLocked for each of the n entries to
\* load (InodeMap::shouldLoadChild), and the contents lock is released when
\* it returns.
computeCheckoutActionsLocks(T, n) ==
  repeat(<<Acq(InodeMapLock), Rel(InodeMapLock)>>, n) \o <<Rel(wlock(T))>>

\* TreeInode::checkout of the TreeInode on ltop of the stack:
\* computeCheckoutActions takes its contents lock; when the actions are
\* done, saveOverlayPostCheckout takes it again, and the parent's follows
\* (childMaterialized or childDematerialized).  After the root the rename
\* lock is released.
lkCheckoutTree(t) ==
  LET o == lop[t]
      ltop == Head(o.stack)
      parent == itree[ltop.ino].parent
  IN
  /\ at(t, "checkout")
  /\ lop' = IF o.stack = <<>>
              THEN [lop EXCEPT ![t].stage = "done", ![t].todo = <<Rel(RenameLock)>>]
            ELSE IF ltop.phase = "compute"
              THEN [lop EXCEPT ![t].stage = "plan",
                               ![t].todo = <<Acq(wlock(ltop.ino))>>]
            ELSE [lop EXCEPT ![t].stack = Tail(o.stack),
                             ![t].todo = touch(ltop.ino) \o
                                         (IF parent # 0 THEN touch(parent) ELSE <<>>)]
  /\ UNCHANGED <<itree, held, lnops>>
  /\ UNCHANGED notLockVars

\* computeCheckoutActions with the contents lock held: the plan is made;
\* L are the entries processCheckoutEntry has to load.
lkComputeCheckoutActions(t, L) ==
  LET o == lop[t]
      T == Head(o.stack).ino
  IN
  /\ at(t, "plan")
  /\ L \subseteq {n \in DOMAIN itree[T].entries : ~itree[T].entries[n].loaded}
  /\ lop' = [lop EXCEPT ![t].stage = "await", ![t].next = "actions",
                        ![t].todo = computeCheckoutActionsLocks(T, Cardinality(L)),
                        ![t].loads = {<<T, n>> : n \in L}]
  /\ UNCHANGED <<itree, held, lnops>>
  /\ UNCHANGED notLockVars

\* The CheckoutActions run: the loaded child directories are checked out,
\* then this TreeInode finishes.
lkActions(t) ==
  LET o == lop[t]
      ltop == Head(o.stack)
  IN
  /\ at(t, "actions")
  /\ lop' = [lop EXCEPT ![t].stage = "checkout",
                        ![t].stack = framesOf(treeChildren(ltop.ino), "compute")
                                     \o <<[ltop EXCEPT !.phase = "post"]>>
                                     \o Tail(o.stack)]
  /\ UNCHANGED <<itree, held, lnops>>
  /\ UNCHANGED notLockVars

LockNext ==
  \/ \E t \in LockThreads : lkAcquire(t)
  \/ \E t \in LockThreads : lkRelease(t)
  \/ \E t \in LockThreads : lkReturn(t)
  \/ \E t \in LockThreads : lkAwait(t)
  \/ \E t \in LockThreads : lkLink(t)
  \/ \E t \in LockThreads, p \in DOMAIN itree, n \in LockNames : lkLoad(t, p, n)
  \/ \E t \in LockThreads, p \in DOMAIN itree, n \in LockNames,
        p2 \in DOMAIN itree, n2 \in LockNames : lkRename(t, p, n, p2, n2)
  \/ \E t \in LockThreads, k \in 1..Cardinality(DOMAIN itree),
        k2 \in 1..Cardinality(DOMAIN itree) : lkMaterialize(t, k, k2)
  \/ \E t \in LockThreads : lkAcquireLocks(t)
  \/ \E t \in LockThreads : lkLockDestChild(t)
  \/ \E t \in LockThreads, nullEmpty \in BOOLEAN : lkDoRename(t, nullEmpty)
  \/ \E t \in LockThreads, k \in {"unlink", "rmdir"}, p \in DOMAIN itree,
        n \in LockNames : lkRemove(t, k, p, n)
  \/ \E t \in LockThreads : lkPreRemove(t)
  \/ \E t \in LockThreads : lkCheckPreRemove(t)
  \/ \E t \in LockThreads : lkTryRemove(t)
  \/ \E t \in LockThreads : lkErase(t)
  \/ \E t \in LockThreads : lkUnload(t)
  \/ \E t \in LockThreads : lkCheckout(t)
  \/ \E t \in LockThreads : lkWalk(t)
  \/ \E t \in LockThreads : lkScan(t)
  \/ \E t \in LockThreads : lkSweep(t)
  \/ \E t \in LockThreads : lkCheckoutTree(t)
  \/ \E t \in LockThreads, L \in SUBSET LockNames : lkComputeCheckoutActions(t, L)
  \/ \E t \in LockThreads : lkActions(t)

(***************************************************************************)
(* Part VI.  TreeInode::readdirImpl: a directory stream read by successive *)
(* readdir calls while entries are inserted into and removed from the      *)
(* directory between the calls.                                            *)
(***************************************************************************)

\* Bounds of the readdir model.
MaxReadIno == 5
MaxReadMods == 3
MaxCap == 2

ReadNames == {"a", "b", "c"}
\* The inode numbers of the children; the directory itself is RootIno.
ReadInos == (RootIno + 1)..MaxReadIno

\* A stream that was never opened.  nfs says which of fuseReaddir and
\* nfsReaddir reads the stream.
NoStream == [open |-> FALSE, nfs |-> FALSE, off |-> 0, ret |-> <<>>,
             atOpen |-> {}, stable |-> {}, eof |-> FALSE, mods |-> 0]

ReadInit ==
  /\ rdir = [n \in {"a", "b"} |-> IF n = "a" THEN 3 ELSE 4]
  /\ rd = NoStream

\* What add() receives: a name, the entry's inode number, and the offset
\* the caller resumes from after this entry.
Added(name, ino, offset) == [name |-> name, ino |-> ino, offset |-> offset]

inodeNumbers(entries) == {entries[n] : n \in DOMAIN entries}

\* The entries of the directory whose inode number is in S, in ascending
\* order of inode number (the heap of indices popped until it is empty).
RECURSIVE popHeap(_, _)
popHeap(entries, S) ==
  IF S = {} THEN <<>>
  ELSE LET least == CHOOSE i \in S : \A j \in S : i <= j
           name == CHOOSE n \in DOMAIN entries : entries[n] = least
       IN <<Added(name, least, least + 2)>> \o popHeap(entries, S \ {least})

\* readdirImpl's return value: false when add() fails for "." or "..";
\* otherwise indices.size() == 0 after the loop, in which each entry is
\* popped from indices before add() is tried on it.
readdirReturns(dots, rest, cap) ==
  IF cap < Len(dots) THEN FALSE
  ELSE IF cap - Len(dots) >= Len(rest) THEN TRUE
  ELSE Len(rest) - (cap - Len(dots) + 1) = 0

\* readdirImpl(off, context, add) on a directory with the given entries,
\* where add() accepts cap entries and then fails: "." when off is 0, ".."
\* when off is at most 1, then the entries whose inode number plus 2 is
\* greater than off, in ascending order of inode number, until add() fails.
\* The result is the list handed back and the function's return value.
readdirImpl(entries, off, cap) ==
  LET dots == (IF off = 0 THEN <<Added(".", RootIno, 1)>> ELSE <<>>)
              \o (IF off <= 1 THEN <<Added("..", RootIno, 2)>> ELSE <<>>)
      rest == popHeap(entries, {i \in inodeNumbers(entries) : i + 2 > off})
      all == dots \o rest
      n == IF cap < Len(all) THEN cap ELSE Len(all)
  IN [list |-> SubSeq(all, 1, n), eof |-> readdirReturns(dots, rest, cap)]

\* opendir: a new stream at offset 0, read through FUSE or through NFS; the
\* entries it has to return are the ones in the directory now that stay
\* until the end of the stream.
rdOpen(nfs) ==
  /\ ~rd.open
  /\ rd' = [NoStream EXCEPT !.open = TRUE, !.nfs = nfs, !.mods = rd.mods,
                            !.atOpen = {<<n, rdir[n]>> : n \in DOMAIN rdir},
                            !.stable = {<<n, rdir[n]>> : n \in DOMAIN rdir}]
  /\ UNCHANGED rdir
  /\ UNCHANGED notReadVars

\* The stream after a call handed back list: the caller resumes from the
\* offset of the last entry of the list, or from the same offset when the
\* list came back empty.
resumed(list, eof) ==
  [rd EXCEPT !.ret = rd.ret \o list,
             !.off = IF list = <<>> THEN rd.off ELSE list[Len(list)].offset,
             !.eof = eof]

\* TreeInode::fuseReaddir: the list alone is handed back; the kernel takes
\* an empty list for the end of the directory.
fuseReaddir(cap) ==
  /\ rd.open
  /\ ~rd.nfs
  /\ ~rd.eof
  /\ LET r == readdirImpl(rdir, rd.off, cap)
     IN rd' = resumed(r.list, r.list = <<>>)
  /\ UNCHANGED rdir
  /\ UNCHANGED notReadVars

\* TreeInode::nfsReaddir: the list and isEof are handed back; the client
\* stops reading when isEof is true.
nfsReaddir(cap) ==
  /\ rd.open
  /\ rd.nfs
  /\ ~rd.eof
  /\ LET r == readdirImpl(rdir, rd.off, cap)
     IN rd' = resumed(r.list, r.eof)
  /\ UNCHANGED rdir
  /\ UNCHANGED notReadVars

\* An entry is inserted (create, mkdir, or a rename into the directory,
\* which brings an inode number allocated earlier).
rdInsert(name, ino) ==
  /\ rd.mods < MaxReadMods
  /\ name \notin DOMAIN rdir
  /\ ino \notin inodeNumbers(rdir)
  /\ rdir' = [n \in DOMAIN rdir \cup {name} |->
                IF n = name THEN ino ELSE rdir[n]]
  /\ rd' = [rd EXCEPT !.mods = rd.mods + 1]
  /\ UNCHANGED notReadVars

\* An entry is removed (unlink, rmdir, or a rename out of the directory).
rdRemove(name) ==
  /\ rd.mods < MaxReadMods
  /\ name \in DOMAIN rdir
  /\ rdir' = [n \in DOMAIN rdir \ {name} |-> rdir[n]]
  /\ rd' = [rd EXCEPT !.mods = rd.mods + 1,
                      !.stable = rd.stable \ {<<name, rdir[name]>>}]
  /\ UNCHANGED notReadVars

ReadNext ==
  \/ \E nfs \in BOOLEAN : rdOpen(nfs)
  \/ \E cap \in 1..MaxCap : fuseReaddir(cap)
  \/ \E cap \in 1..MaxCap : nfsReaddir(cap)
  \/ \E name \in ReadNames, ino \in ReadInos : rdInsert(name, ino)
  \/ \E name \in ReadNames : rdRemove(name)

(***************************************************************************)
(* Part VII.  TreeInode::getOrFindChild(name, context, loadInodes) on the  *)
(* inode tree of Part III: the caller that accepts an InodeOrTreeOrEntry   *)
(* and the caller that wants an inode.                                     *)
(***************************************************************************)

\* Bound of the find model.
MaxFinds == 2

\* No call made yet.  kind is what the InodeOrTreeOrEntry holds; loads
\* counts the loads the calls started in the InodeMap.
NoFind == [calls |-> 0, loads |-> 0, kind |-> "none", dir |-> 0, name |-> "",
           loadInodes |-> FALSE]

FindInit == found = NoFind

\* getOrFindChild line 257 with every unloaded entry loaded.
resolvesNever(e, loadInodes) == FALSE

\* getOrFindChild lines 254-259: an unloaded entry is answered from the
\* ObjectStore when the caller does not require an inode and the entry is
\* not materialized.
resolvesWithoutInode(e, loadInodes) == ~(loadInodes \/ isMaterialized(e))

\* The call's result and effect.
treeGetOrFindChild(p, name, loadInodes) ==
  /\ quiet
  /\ found.calls < MaxFinds
  /\ p \in DOMAIN dirs
  /\ LET called == [found EXCEPT !.calls = found.calls + 1, !.dir = p,
                                 !.name = name, !.loadInodes = loadInodes]
     IN IF name \notin DOMAIN dirs[p].entries THEN
          \* no such entry: InodeError(ENOENT)
          /\ found' = [called EXCEPT !.kind = "ENOENT"]
          /\ UNCHANGED <<dirs, overlay, nextIno, crashPoints>>
        ELSE IF dirs[p].entries[name].loaded THEN
          \* already loaded: the inode
          /\ found' = [called EXCEPT !.kind = "inode"]
          /\ UNCHANGED <<dirs, overlay, nextIno, crashPoints>>
        ELSE IF resolvesWithoutInode(dirs[p].entries[name], loadInodes) THEN
          \* objectStore->getTree(hash) for a directory, the DirEntry as an
          \* UnmaterializedUnloadedBlobDirEntry for a file
          /\ found' = [called EXCEPT
                         !.kind = IF dirs[p].entries[name].isDir THEN "tree"
                                  ELSE "entry"]
          /\ UNCHANGED <<dirs, overlay, nextIno, crashPoints>>
        ELSE
          \* shouldLoadChild, startLoadingInode, inodeLoadComplete
          /\ nextInoAfterLoad(p, name) <= MaxIno
          /\ found' = [called EXCEPT !.kind = "inode",
                                     !.loads = found.loads + 1]
          /\ dirs' = dirsAfterLoad(p, name)
          /\ overlay' = overlayAfterLoad(p, name)
          /\ nextIno' = nextInoAfterLoad(p, name)
          /\ crashPoints' = <<>>
  /\ UNCHANGED <<ovFiles, uop, ck, conflicts, nops>>
  /\ UNCHANGED <<journal, channel>>
  /\ UNCHANGED <<loadVars, mountVars, diffVars, lockVars, readVars, chanVars,
               rmVars>>

\* The calls, and the operations that load, unload and materialize the
\* entries they look at.
FindNext ==
  \/ \E p \in DOMAIN dirs, n \in Names, li \in BOOLEAN : treeGetOrFindChild(p, n, li)
  \/ \E p \in DOMAIN dirs, n \in Names : lookup(p, n)
  \/ \E p \in DOMAIN dirs, n \in Names : unload(p, n)
  \/ \E k \in {"create", "mkdir"}, d \in DOMAIN dirs, n \in Names : fsCreate(k, d, n)
  \/ fsMaterialize
  \/ fsChildMaterialized
  \/ fsInsert
  \/ \E d \in DOMAIN dirs, n \in FileNames, c \in WriteData : fsWrite(d, n, c)
  \/ fsFileMaterialize
  \/ fsFileParent

(***************************************************************************)
(* Part VIII.  Starting and stopping the channel of a mount:               *)
(* EdenMount::startChannel, channelMount, takeoverFuse, unmount, shutdown  *)
(* and destroy, with EdenMount::state_ and the two promises of             *)
(* MountingUnmountingState.                                                *)
(***************************************************************************)

\* Bound of the channel model: the callers of unmount().
MaxUnmounts == 2

Unmounters == 1..MaxUnmounts

\* A promise is empty (the optional has no value), unfulfilled, fulfilled
\* with Unit ("value") or fulfilled with one of these errors.
PromiseErrors == {"mountError", "unmountError",
                  "FuseDeviceUnmountedDuringInitialization"}
fulfilled(p) == p \in {"value"} \cup PromiseErrors

ChanInit ==
  /\ mountState = "INITIALIZED"
  /\ mountPromise = "empty"
  /\ unmountPromise = "empty"
  /\ kernel = [mounted |-> FALSE, mounts |-> 0, umounts |-> 0]
  /\ sc = [pc |-> "idle", res |-> "none", nfs |-> FALSE, from |-> "",
           cancelled |-> FALSE]
  /\ um = [c \in Unmounters |-> [pc |-> "idle", res |-> "none", early |-> FALSE]]
  /\ sd = [pc |-> "idle", destroyed |-> FALSE, deleted |-> FALSE]

\* channelUnmountStarted() with unmount() never seen.
channelUnmountNeverStarted == FALSE

\* MountingUnmountingState::channelMountStarted / channelUnmountStarted.
channelMountStarted == mountPromise # "empty"
channelUnmountStarted == unmountPromise # "empty"

\* state_.exchange(newState).
exchange(cur, expected, newState) == newState

\* state_.compare_exchange_strong(expected, newState).
compareExchange(cur, expected, newState) ==
  IF cur = expected THEN newState ELSE cur

\* EdenMount::transitionToFuseInitializationErrorState.
transitionToFuseInitializationErrorState(cur) ==
  compareExchange(cur, "STARTING", "FUSE_ERROR")

\* The call has ended: its future holds res.  An error goes through
\* startChannel's thenError first.
scFailed(state, res) ==
  /\ mountState' = transitionToFuseInitializationErrorState(state)
  /\ sc' = [sc EXCEPT !.pc = "done", !.res = res]

\* EdenMount::channelInitSuccessful: transitionState(STARTING, RUNNING),
\* which throws when the state is another one.
channelInitSuccessful ==
  LET next == compareExchange(mountState, "STARTING", "RUNNING")
  IN IF mountState = "STARTING"
       THEN /\ mountState' = next
            /\ sc' = [sc EXCEPT !.pc = "done", !.res = "value"]
       ELSE scFailed(next, "runtime_error")

\* EdenMount::startChannel up to the first asynchronous call:
\* transitionState(INITIALIZED, STARTING), then channelMount's beginMount,
\* which throws EdenMountCancelled when unmount() has been called, then
\* fuseMount or makeNfsChannel.
startChannel(nfs) ==
  /\ sc.pc = "idle"
  /\ IF mountState # "INITIALIZED" THEN
       /\ sc' = [sc EXCEPT !.pc = "done", !.res = "runtime_error",
                           !.from = mountState]
       /\ UNCHANGED <<mountState, mountPromise, kernel>>
     ELSE IF channelUnmountStarted THEN
       /\ mountState' = transitionToFuseInitializationErrorState("STARTING")
       /\ sc' = [sc EXCEPT !.pc = "done", !.res = "EdenMountCancelled",
                           !.from = mountState]
       /\ UNCHANGED <<mountPromise, kernel>>
     ELSE
       /\ mountState' = "STARTING"
       /\ mountPromise' = "unfulfilled"
       /\ sc' = [sc EXCEPT !.pc = IF nfs THEN "makeNfsChannel" ELSE "fuseMount",
                           !.nfs = nfs, !.from = mountState]
       /\ kernel' = IF nfs THEN kernel
                    ELSE [kernel EXCEPT !.mounts = kernel.mounts + 1]
  /\ UNCHANGED <<unmountPromise, um, sd>>
  /\ UNCHANGED notChanVars

\* channelMount: PrivHelper::fuseMount has finished.  After a successful
\* mount the FUSE path looks at channelUnmountStarted() and rolls back.
fuseMountDone(ok) ==
  /\ sc.pc = "fuseMount"
  /\ IF ~ok THEN
       /\ mountPromise' = "mountError"
       /\ scFailed(mountState, "mountError")
       /\ UNCHANGED kernel
     ELSE IF channelUnmountStarted THEN
       /\ kernel' = [kernel EXCEPT !.mounted = TRUE]
       /\ sc' = [sc EXCEPT !.pc = "rollback"]
       /\ UNCHANGED <<mountPromise, mountState>>
     ELSE
       /\ kernel' = [kernel EXCEPT !.mounted = TRUE]
       /\ mountPromise' = "value"
       /\ sc' = [sc EXCEPT !.pc = "initialize"]
       /\ UNCHANGED mountState
  /\ UNCHANGED <<unmountPromise, um, sd>>
  /\ UNCHANGED notChanVars

\* channelMount: the fuseUnmount of the rollback has finished; the mount
\* promise is set in the thenValue that follows it.
rollbackDone(ok) ==
  /\ sc.pc = "rollback"
  /\ IF ok THEN
       /\ kernel' = [kernel EXCEPT !.mounted = FALSE,
                                   !.umounts = kernel.umounts + 1]
       /\ mountPromise' = "FuseDeviceUnmountedDuringInitialization"
       /\ scFailed(mountState, "FuseDeviceUnmountedDuringInitialization")
     ELSE
       /\ kernel' = [kernel EXCEPT !.umounts = kernel.umounts + 1]
       /\ scFailed(mountState, "unmountError")
       /\ UNCHANGED mountPromise
  /\ UNCHANGED <<unmountPromise, um, sd>>
  /\ UNCHANGED notChanVars

\* startChannel: FuseChannel::initialize has finished.
initializeDone(ok) ==
  /\ sc.pc = "initialize"
  /\ IF ok THEN channelInitSuccessful ELSE scFailed(mountState, "initError")
  /\ UNCHANGED <<mountPromise, unmountPromise, kernel, um, sd>>
  /\ UNCHANGED notChanVars

\* channelMount: makeNfsChannel has finished; nfsMount is called in its
\* thenValue.
makeNfsChannelDone(ok) ==
  /\ sc.pc = "makeNfsChannel"
  /\ IF ok THEN
       /\ sc' = [sc EXCEPT !.pc = "nfsMount"]
       /\ kernel' = [kernel EXCEPT !.mounts = kernel.mounts + 1]
       /\ UNCHANGED mountState
     ELSE
       /\ scFailed(mountState, "channelError")
       /\ UNCHANGED kernel
  /\ UNCHANGED <<mountPromise, unmountPromise, um, sd>>
  /\ UNCHANGED notChanVars

\* channelMount: PrivHelper::nfsMount has finished; startChannel goes on to
\* channelInitSuccessful at once.
nfsMountDone(ok) ==
  /\ sc.pc = "nfsMount"
  /\ IF ok THEN
       /\ kernel' = [kernel EXCEPT !.mounted = TRUE]
       /\ mountPromise' = "value"
       /\ channelInitSuccessful
     ELSE
       /\ mountPromise' = "mountError"
       /\ scFailed(mountState, "mountError")
       /\ UNCHANGED kernel
  /\ UNCHANGED <<unmountPromise, um, sd>>
  /\ UNCHANGED notChanVars

\* EdenMount::takeoverFuse: the file system is mounted already;
\* initializeFromTakeover succeeds or throws.
takeoverFuse(ok) ==
  /\ sc.pc = "idle"
  /\ IF mountState # "INITIALIZED" THEN
       /\ sc' = [sc EXCEPT !.pc = "done", !.res = "runtime_error",
                           !.from = mountState]
       /\ UNCHANGED <<mountState, mountPromise, kernel>>
     ELSE IF channelUnmountStarted THEN
       /\ mountState' = transitionToFuseInitializationErrorState("STARTING")
       /\ sc' = [sc EXCEPT !.pc = "done", !.res = "EdenMountCancelled",
                           !.from = mountState]
       /\ UNCHANGED <<mountPromise, kernel>>
     ELSE
       /\ mountPromise' = "value"
       /\ kernel' = [kernel EXCEPT !.mounted = TRUE]
       /\ IF ok
            THEN /\ mountState' = compareExchange("STARTING", "STARTING", "RUNNING")
                 /\ sc' = [sc EXCEPT !.pc = "done", !.res = "value",
                                     !.from = mountState]
            ELSE /\ mountState' = transitionToFuseInitializationErrorState("STARTING")
                 /\ sc' = [sc EXCEPT !.pc = "done", !.res = "initError",
                                     !.from = mountState]
  /\ UNCHANGED <<unmountPromise, um, sd>>
  /\ UNCHANGED notChanVars

\* EdenMount::unmount, lines 832-834: return makeFuture(); the promise that
\* was just emplaced stays unfulfilled.
unmountWithoutMount == "unfulfilled"

\* EdenMount::unmount by caller c, up to the first wait.
unmount(c) ==
  /\ um[c].pc = "idle"
  /\ IF channelUnmountStarted THEN
       \* channelUnmountStarted(): the future of the shared promise
       /\ um' = [um EXCEPT ![c].pc = "shared"]
       /\ UNCHANGED <<unmountPromise, sc>>
     ELSE IF ~channelMountStarted THEN
       /\ unmountPromise' = unmountWithoutMount
       /\ um' = [um EXCEPT ![c] = [pc |-> "done", res |-> "value", early |-> TRUE]]
       /\ UNCHANGED sc
     ELSE
       /\ unmountPromise' = "unfulfilled"
       /\ um' = [um EXCEPT ![c].pc = "waitMount"]
       /\ sc' = [sc EXCEPT !.cancelled = sc.pc # "done"]
  /\ UNCHANGED <<mountState, mountPromise, kernel, sd>>
  /\ UNCHANGED notChanVars

\* unmount's first thenTry: the mount future is ready.  After a failed
\* mount there is nothing to unmount and the second thenTry sets the
\* unmount promise; otherwise fuseUnmount or nfsUnmount is called.
unmountMountDone(c) ==
  /\ um[c].pc = "waitMount"
  /\ fulfilled(mountPromise)
  /\ IF mountPromise = "value" THEN
       /\ um' = [um EXCEPT ![c].pc = "umount"]
       /\ UNCHANGED unmountPromise
     ELSE
       /\ unmountPromise' = "value"
       /\ um' = [um EXCEPT ![c].pc = "done", ![c].res = "value"]
  /\ UNCHANGED <<mountState, mountPromise, kernel, sc, sd>>
  /\ UNCHANGED notChanVars

\* unmount's second thenTry: fuseUnmount or nfsUnmount has finished and its
\* result goes to the unmount promise and to the caller.
unmountDone(c, ok) ==
  /\ um[c].pc = "umount"
  /\ kernel' = [kernel EXCEPT !.mounted = IF ok THEN FALSE ELSE kernel.mounted,
                              !.umounts = kernel.umounts + 1]
  /\ unmountPromise' = IF ok THEN "value" ELSE "unmountError"
  /\ um' = [um EXCEPT ![c].pc = "done",
                       ![c].res = IF ok THEN "value" ELSE "unmountError"]
  /\ UNCHANGED <<mountState, mountPromise, sc, sd>>
  /\ UNCHANGED notChanVars

\* The future unmount() returned to caller c: "none" before the call,
\* "pending" until it completes, then what it completed with.
unmountFuture(c) ==
  CASE um[c].pc = "idle" -> "none"
    [] um[c].pc = "done" -> um[c].res
    [] um[c].pc = "shared" /\ fulfilled(unmountPromise) -> unmountPromise
    [] OTHER -> "pending"

\* EdenMount::shutdown: the state moves to SHUTTING_DOWN from RUNNING,
\* STARTING, INIT_ERROR or FUSE_ERROR, and from INITIALIZED when
\* allowFuseNotStarted is given; then shutdownImpl.
shutdown(allowFuseNotStarted) ==
  /\ sd.pc = "idle"
  /\ ~sd.destroyed
  /\ \/ mountState \in {"RUNNING", "STARTING", "FUSE_ERROR"}
     \/ allowFuseNotStarted /\ mountState = "INITIALIZED"
  /\ mountState' = "SHUTTING_DOWN"
  /\ sd' = [sd EXCEPT !.pc = "shutdownImpl"]
  /\ UNCHANGED <<mountPromise, unmountPromise, kernel, sc, um>>
  /\ UNCHANGED notChanVars

\* EdenMount::destroy: state_.exchange(DESTROYING), then shutdownImpl, or
\* nothing while shutdown() runs, or delete after it.
destroy ==
  /\ ~sd.destroyed
  /\ mountState' = "DESTROYING"
  /\ sd' = [sd EXCEPT !.destroyed = TRUE,
                      !.deleted = (mountState = "SHUT_DOWN"),
                      !.pc = IF mountState \in {"SHUTTING_DOWN", "SHUT_DOWN"}
                               THEN sd.pc ELSE "shutdownImpl"]
  /\ UNCHANGED <<mountPromise, unmountPromise, kernel, sc, um>>
  /\ UNCHANGED notChanVars

\* shutdownImpl's continuation: InodeMap::shutdown has finished;
\* state_.exchange(SHUT_DOWN), and delete when destroy() was called.
shutdownImplDone ==
  /\ sd.pc = "shutdownImpl"
  /\ mountState' = "SHUT_DOWN"
  /\ sd' = [sd EXCEPT !.pc = "done", !.deleted = (mountState = "DESTROYING")]
  /\ UNCHANGED <<mountPromise, unmountPromise, kernel, sc, um>>
  /\ UNCHANGED notChanVars

ChanNext ==
  \/ \E nfs \in BOOLEAN : startChannel(nfs)
  \/ \E ok \in BOOLEAN : fuseMountDone(ok)
  \/ \E ok \in BOOLEAN : rollbackDone(ok)
  \/ \E ok \in BOOLEAN : initializeDone(ok)
  \/ \E ok \in BOOLEAN : makeNfsChannelDone(ok)
  \/ \E ok \in BOOLEAN : nfsMountDone(ok)
  \/ \E ok \in BOOLEAN : takeoverFuse(ok)
  \/ \E c \in Unmounters : unmount(c)
  \/ \E c \in Unmounters : unmountMountDone(c)
  \/ \E c \in Unmounters, ok \in BOOLEAN : unmountDone(c, ok)
  \/ \E a \in BOOLEAN : shutdown(a)
  \/ destroy
  \/ shutdownImplDone

(***************************************************************************)
(* Part IX.  The removal of a loaded directory from its parent, by rmdir,  *)
(* by checkout and by recursive removal, while other threads create files  *)
(* and directories in it.  The parent's contents lock is held by the only  *)
(* removal from tryRemoveChild's entry to its end; the directory's own     *)
(* contents lock is taken by checkPreRemove for the check only, and by     *)
(* mknod, symlink and mkdir from before their checks to after the insert.  *)
(* InodeBase::markUnlinked and InodeBase::getPath take the location lock   *)
(* of the inode, not its contents lock.                                    *)
(***************************************************************************)

MaxCreators == 2

Creators == 1..MaxCreators
CreateNames == {"f", "g"}
RemovalKinds == {"rmdir", "checkout", "recursive"}

RmInit ==
  /\ dirEntry = TRUE
  /\ rmDir = [entries |-> {}, unlinked |-> FALSE, writer |-> 0]
  /\ rmv = [pc |-> "idle", kind |-> "", res |-> "none"]
  /\ crt = [c \in Creators |->
              [pc |-> "idle", name |-> "", mkdir |-> FALSE, res |-> "none"]]

\* TreeInode::checkPreRemove(const TreeInodePtr&), called with nothing
\* holding the directory's contents lock in write mode.
checkPreRemoveTree(entries) == IF entries # {} THEN "ENOTEMPTY" ELSE "ok"

\* A removal begins: rmdir and recursive removal through removeImpl,
\* checkout through tryRemoveChild.
removeStart(kind) ==
  /\ rmv.pc = "idle"
  /\ dirEntry
  /\ rmv' = [rmv EXCEPT !.kind = kind,
                        !.pc = CASE kind = "recursive" -> "clear"
                                 [] kind = "rmdir" -> "precheck"
                                 [] OTHER -> "tryRemove"]
  /\ UNCHANGED <<dirEntry, rmDir, crt>>
  /\ UNCHANGED notRmVars

\* removeRecursivelyNoFlushInvalidation: the directory erases all of its
\* entries with its contents lock held in write mode.
removeAllChildrenRecursively ==
  /\ rmv.pc = "clear"
  /\ rmDir.writer = 0
  /\ rmDir' = [rmDir EXCEPT !.entries = {}]
  /\ rmv' = [rmv EXCEPT !.pc = "precheck"]
  /\ UNCHANGED <<dirEntry, crt>>
  /\ UNCHANGED notRmVars

\* removeImpl: the check before the rename lock is taken.
removeImpl ==
  /\ rmv.pc = "precheck"
  /\ rmDir.writer = 0
  /\ rmv' = IF checkPreRemoveTree(rmDir.entries) # "ok"
              THEN [rmv EXCEPT !.pc = "done", !.res = checkPreRemoveTree(rmDir.entries)]
              ELSE [rmv EXCEPT !.pc = "tryRemove"]
  /\ UNCHANGED <<dirEntry, rmDir, crt>>
  /\ UNCHANGED notRmVars

\* tryRemoveChild up to the return of checkPreRemove: the parent's contents
\* lock is taken, the entry found, and the directory checked; its contents
\* lock is released when checkPreRemove returns.
tryRemoveChild ==
  /\ rmv.pc = "tryRemove"
  /\ rmDir.writer = 0
  /\ rmv' = IF checkPreRemoveTree(rmDir.entries) # "ok"
              THEN [rmv EXCEPT !.pc = "done", !.res = checkPreRemoveTree(rmDir.entries)]
              ELSE [rmv EXCEPT !.pc = "checked"]
  /\ UNCHANGED <<dirEntry, rmDir, crt>>
  /\ UNCHANGED notRmVars

\* tryRemoveChild after the check: markUnlinked, the erase of the entry, and
\* the release of the parent's contents lock.
markUnlinked ==
  /\ rmv.pc = "checked"
  /\ rmDir' = [rmDir EXCEPT !.unlinked = TRUE]
  /\ dirEntry' = FALSE
  /\ rmv' = [rmv EXCEPT !.pc = "done", !.res = "ok"]
  /\ UNCHANGED crt
  /\ UNCHANGED notRmVars

\* mknod, symlink or mkdir takes the directory's contents lock.
createLock(c, name, mkdir) ==
  /\ crt[c].pc = "idle"
  /\ rmDir.writer = 0
  /\ rmDir' = [rmDir EXCEPT !.writer = c]
  /\ crt' = [crt EXCEPT ![c] = [pc |-> "locked", name |-> name,
                                mkdir |-> mkdir, res |-> "none"]]
  /\ UNCHANGED <<dirEntry, rmv>>
  /\ UNCHANGED notRmVars

\* The checks of createImpl and of mkdir with the lock held: no entry of
\* this name, and getPath() has a value, that is the directory is not
\* unlinked.  createImpl looks for the entry first, mkdir for the path.
createChecks(c) ==
  IF crt[c].mkdir
    THEN IF rmDir.unlinked THEN "ENOENT"
         ELSE IF crt[c].name \in rmDir.entries THEN "EEXIST" ELSE "ok"
    ELSE IF crt[c].name \in rmDir.entries THEN "EEXIST"
         ELSE IF rmDir.unlinked THEN "ENOENT" ELSE "ok"

createCheck(c) ==
  /\ crt[c].pc = "locked"
  /\ IF createChecks(c) # "ok"
       THEN /\ crt' = [crt EXCEPT ![c].pc = "done", ![c].res = createChecks(c)]
            /\ rmDir' = [rmDir EXCEPT !.writer = 0]
       ELSE /\ crt' = [crt EXCEPT ![c].pc = "checked"]
            /\ UNCHANGED rmDir
  /\ UNCHANGED <<dirEntry, rmv>>
  /\ UNCHANGED notRmVars

\* The entry is recorded and the contents lock released.
createImpl(c) ==
  /\ crt[c].pc = "checked"
  /\ rmDir' = [rmDir EXCEPT !.entries = @ \cup {crt[c].name}, !.writer = 0]
  /\ crt' = [crt EXCEPT ![c].pc = "done", ![c].res = "ok"]
  /\ UNCHANGED <<dirEntry, rmv>>
  /\ UNCHANGED notRmVars

RmNext ==
  \/ \E kind \in RemovalKinds : removeStart(kind)
  \/ removeAllChildrenRecursively
  \/ removeImpl
  \/ tryRemoveChild
  \/ markUnlinked
  \/ \E c \in Creators, name \in CreateNames, mkdir \in BOOLEAN :
       createLock(c, name, mkdir)
  \/ \E c \in Creators : createCheck(c)
  \/ \E c \in Creators : createImpl(c)

(***************************************************************************)
(* Specifications                                                          *)
(***************************************************************************)

vars == <<loadVars, mountVars, treeVars, diffVars, lockVars, readVars, findVars,
          chanVars, rmVars>>

\* The state after construction: nothing loaded, no operation running.
Init == LoadInit /\ MountInit /\ TreeInit /\ DiffInit /\ LockInit /\ ReadInit
        /\ FindInit /\ ChanInit /\ RmInit

SpecLoad == Init /\ [][LoadNext]_vars

\* The load model with every load answered: the future of a load that was
\* started becomes ready and its callback runs, and a promise taken from the
\* InodeMap is fulfilled.
LoadFairness ==
  /\ WF_vars(registerInodeLoadComplete)
  /\ WF_vars(promiseSetValue)
SpecLoadLive == SpecLoad /\ LoadFairness

SpecMount == Init /\ [][MountNext]_vars

Spec == Init /\ [][TreeNext]_vars

SpecDiff == Init /\ [][DiffNext]_vars

SpecLocks == Init /\ [][LockNext]_vars
SpecReaddir == Init /\ [][ReadNext]_vars
SpecFind == Init /\ [][FindNext]_vars
SpecChannel == Init /\ [][ChanNext]_vars
SpecRemove == Init /\ [][RmNext]_vars

\* The channel model with every asynchronous call finishing: a PrivHelper
\* call, a channel initialization or an InodeMap shutdown that was started
\* ends, and a continuation whose future is ready runs.
ChanFairness ==
  /\ WF_vars(\E ok \in BOOLEAN : fuseMountDone(ok))
  /\ WF_vars(\E ok \in BOOLEAN : rollbackDone(ok))
  /\ WF_vars(\E ok \in BOOLEAN : initializeDone(ok))
  /\ WF_vars(\E ok \in BOOLEAN : makeNfsChannelDone(ok))
  /\ WF_vars(\E ok \in BOOLEAN : nfsMountDone(ok))
  /\ WF_vars(\E c \in Unmounters : unmountMountDone(c))
  /\ WF_vars(\E c \in Unmounters, ok \in BOOLEAN : unmountDone(c, ok))
  /\ WF_vars(shutdownImplDone)
SpecChannelLive == SpecChannel /\ ChanFairness

(***************************************************************************)
(* Claims about loading                                                    *)
(***************************************************************************)

\* The callers whose promise is attached to load id.
waitersOf(id) == {t \in Threads : lwait[t].id = id}

\* C4: at any instant there is at most one in-flight load per inode number:
\* every Loading entry of the InodeMap has exactly one fetch behind it, no
\* inode number has two fetches, and the callers attached to one load that
\* were handed an inode were handed the same inode.
C4_AtMostOneLoad ==
  /\ \A f, g \in futures : f.ino = g.ino => f = g
  /\ \A ino \in DOMAIN loading :
       /\ Cardinality({f \in futures : f.ino = ino}) = 1
       /\ \A f \in futures : f.ino = ino => f.id = loading[ino].id
  /\ \A t, u \in Threads :
       (lwait[t].id # 0 /\ lwait[t].id = lwait[u].id
          /\ lres[t].kind = "inode" /\ lres[u].kind = "inode")
         => lres[t].val = lres[u].val

\* A state in which two callers asked for the same unloaded child while its
\* load was in flight, and both were handed the inode of that one load.
C4_Witness ==
  \E t, u \in Threads :
    /\ t # u
    /\ lwait[t].id # 0 /\ lwait[t] = lwait[u]
    /\ lres[t].kind = "inode" /\ lres[t] = lres[u]
    /\ lwait[t].ino \notin DOMAIN loading
    /\ nloads = 1

\* C5: a promise is fulfilled with an inode only when the parent's entries
\* already link that inode: every promise that was taken from the InodeMap
\* and is still to be fulfilled carries an inode that some entry links.
C5_LinkedBeforeFulfilled ==
  \A w \in wake : \E n \in DOMAIN lentries : lentries[n].inode = w.obj

\* A state in which a load that completed later (through the future) has
\* linked the child and still has a promise to fulfil.
C5_Witness ==
  \E w \in wake : \E n \in DOMAIN lentries :
    /\ lentries[n].inode = w.obj
    /\ lentries[n].isDir
    /\ lpc[w.t] = "waiting"
    /\ lres[w.t] = NoResult

\* C6: when a load fails every waiter attached to it is failed with the same
\* error, and the InodeMap forgets the load: no Loading entry is left without
\* a fetch behind it, so the next request starts a new load.
C6_LoadFailure ==
  /\ \A t, u \in Threads :
       (lwait[t].id # 0 /\ lwait[t].id = lwait[u].id /\ lres[t].kind = "error")
         => lres[u] = lres[t]
  /\ \A t \in Threads : lres[t].kind = "error" =>
       /\ lpc[t] = "idle"
       /\ (lwait[t].ino \in DOMAIN loading => loading[lwait[t].ino].id # lwait[t].id)
  /\ \A ino \in DOMAIN loading : \E f \in futures : f.ino = ino

\* A state in which two waiters of one load were failed with its error and a
\* third caller's later request for the same child loaded it afresh.
C6_Witness ==
  \E t, u, v \in Threads :
    /\ t # u
    /\ lwait[t].id # 0 /\ lwait[t] = lwait[u]
    /\ lres[t].kind = "error" /\ lres[u] = lres[t]
    /\ lwait[v].ino = lwait[t].ino /\ lwait[v].id > lwait[t].id
    /\ lres[v].kind = "inode" /\ lres[v].val = lwait[v].id

(***************************************************************************)
(* Claims about the mount                                                  *)
(***************************************************************************)

\* C3: two checkouts never run concurrently on one mount: at no instant are
\* two operations inside TreeInode::checkout on the mount's inode tree, and
\* an operation is inside it only while checkoutInProgress is set.
C3_NoConcurrentCheckout ==
  /\ Cardinality({c \in Clients : mpc[c] \in {"inodeCheckout", "pathCheckout"}}) <= 1
  /\ \A c \in Clients :
       mpc[c] \in {"inodeCheckout", "pathCheckout"} => checkoutInProgress

(***************************************************************************)
(* Claims about the inode tree                                             *)
(***************************************************************************)

\* A TreeInode and the TreeInodes above it, up to the root.
RECURSIVE chainUp(_)
chainUp(i) == IF i = 0 \/ i \notin DOMAIN dirs THEN {} ELSE {i} \cup chainUp(dirs[i].parent)

\* Nothing is in flight: no operation, no checkout, the rename lock is free.
atRest == quiet /\ renameMutex = 0

\* The (name, type, id) of a directory's entries.
scmOf(entries) ==
  [n \in DOMAIN entries |-> [isDir |-> entries[n].isDir, hash |-> entries[n].hash]]

\* C1: materialization upward closure: if a DirEntry is materialized, every
\* TreeInode from the one holding it up to the root is materialized.  Stated
\* for the states in which nothing is in flight.
C1_UpwardClosure ==
  atRest =>
    \A i \in DOMAIN dirs : \A n \in DOMAIN dirs[i].entries :
      isMaterialized(dirs[i].entries[n]) =>
        \A j \in chainUp(i) : dirs[j].treeHash = NoHash

\* C2: unmaterialized equivalence: a TreeInode with treeHash h has entries
\* whose (name, id, type) are those of the Tree h.  Stated for the states in
\* which nothing is in flight.
C2_UnmaterializedEquivalence ==
  atRest =>
    \A i \in DOMAIN dirs :
      dirs[i].treeHash # NoHash => scmOf(dirs[i].entries) = getTree(dirs[i].treeHash)

\* The step is TreeInode::saveOverlayPostCheckout of the innermost directory
\* of a checkout that is no dry run.
postStep ==
  /\ ck.stage = "inodeCheckout"
  /\ top.stage = "actions"
  /\ top.pending = {}
  /\ ck.mode # "DryRun"
  /\ ck' # ck

\* C9: at post-checkout reconciliation a TreeInode takes the hash h of the
\* destination Tree if and only if its entries and those of h are equally
\* many and agree pairwise on name, type and ObjectId, every entry being
\* unmaterialized; otherwise it is left materialized.
C9_DematerializeIff ==
  [][postStep =>
       dirs'[top.ino].treeHash =
         IF top.to # NoHash /\ scmOf(dirs[top.ino].entries) = getTree(top.to)
           THEN top.to ELSE NoHash]_vars

\* The Overlay states a crash can leave behind: the present one and those
\* the last step went through.
overlayStates == {[dirs |-> overlay, files |-> ovFiles]} \cup
                 {crashPoints[k] : k \in 1..Len(crashPoints)}

\* The directories of Overlay state O that the root's data leads to.
overlayTree(O) ==
  {RootIno} \cup
  (IF RootIno \in DOMAIN O.dirs
     THEN {O.dirs[RootIno][n].ino : n \in DOMAIN O.dirs[RootIno]} ELSE {})

\* In Overlay state O the child has data of its own.
hasOverlayData(O, e) ==
  IF e.isDir THEN e.ino \in DOMAIN O.dirs ELSE e.ino \in DOMAIN O.files

\* C7: at every instant, and so at every crash point, a child that its
\* parent's Overlay data marks as materialized has Overlay data of its own.
C7_OverlayOrdering ==
  \A O \in overlayStates :
    \A p \in overlayTree(O) \cap DOMAIN O.dirs : \A n \in DOMAIN O.dirs[p] :
      O.dirs[p][n].hash = NoHash => hasOverlayData(O, O.dirs[p][n])

\* C7, for the states in which nothing is in flight and the Overlay as it
\* then is.
C7_OverlayOrderingAtRest ==
  atRest =>
    \A p \in overlayTree([dirs |-> overlay]) \cap DOMAIN overlay :
      \A n \in DOMAIN overlay[p] :
        overlay[p][n].hash = NoHash =>
          hasOverlayData([dirs |-> overlay, files |-> ovFiles], overlay[p][n])

\* TreeInode i changes from materialized to the hash of a Tree.
treeDematerializes(i) ==
  /\ i \in DOMAIN dirs /\ i \in DOMAIN dirs'
  /\ dirs[i].treeHash = NoHash
  /\ dirs'[i].treeHash # NoHash

\* The DirEntry of inode i in directory p changes from materialized to
\* unmaterialized.
entryDematerializes(p, i) ==
  /\ p \in DOMAIN dirs /\ p \in DOMAIN dirs'
  /\ \E n \in DOMAIN dirs[p].entries \cap DOMAIN dirs'[p].entries :
       /\ dirs[p].entries[n].ino = i
       /\ dirs'[p].entries[n].ino = i
       /\ isMaterialized(dirs[p].entries[n])
       /\ ~isMaterialized(dirs'[p].entries[n])

\* The innermost TreeInode::checkout call is the one of directory i and
\* every CheckoutAction of it is over.
reconciled(i) ==
  /\ ck.stage = "inodeCheckout"
  /\ top.ino = i
  /\ top.stage \in {"actions", "notify"}
  /\ top.pending = {}

computeStep ==
  /\ ck.stage = "inodeCheckout"
  /\ top.stage = "compute"
  /\ ck' # ck

\* computeCheckoutActions did no work: no entry was changed, no inode number
\* allocated, nothing forgotten in the Overlay, no conflict recorded and no
\* CheckoutAction made.
noWork ==
  /\ dirs' = dirs
  /\ nextIno' = nextIno
  /\ overlay' = overlay
  /\ ovFiles' = ovFiles
  /\ conflicts' = conflicts
  /\ ck'.frames[Len(ck.frames)].pending = {}

\* T is unmaterialized with treeHash equal to the destination Tree's id.
atDestination ==
  /\ top.to # NoHash
  /\ dirs[top.ino].treeHash = top.to

\* C10: TreeInode::checkout(T, from, to) examines no entry, changes none,
\* records no conflict and makes no CheckoutAction whenever T is
\* unmaterialized with treeHash equal to to's id and from is null or has
\* that id too, in every mode.
C10_ShortCircuit ==
  [][(computeStep /\ atDestination
        /\ (top.from = NoHash \/ dirs[top.ino].treeHash = top.from))
       => noWork]_vars

\* C10 as the specification words it: the same also in Force mode whatever
\* from is.
C10_ShortCircuitOrForce ==
  [][(computeStep /\ atDestination
        /\ (top.from = NoHash \/ dirs[top.ino].treeHash = top.from
              \/ ck.mode = "Force"))
       => noWork]_vars

\* A state right after computeCheckoutActions returned early for a directory
\* that is at the destination Tree and at the from Tree: no action was made,
\* and saveOverlayPostCheckout comes next.
C10_Witness ==
  /\ ck.stage = "inodeCheckout"
  /\ top.stage = "actions"
  /\ top.pending = {}
  /\ top.to # NoHash
  /\ dirs[top.ino].treeHash = top.to
  /\ dirs[top.ino].treeHash = top.from
  /\ ck.mode = "Force"
  /\ conflicts = {}

\* What a conflict's path holds: whether the directory has an entry of that
\* name, its inode number, type and hash, and the contents it has in the
\* Overlay.
entryAt(D, F, c) ==
  IF c.dir \in DOMAIN D /\ c.name \in DOMAIN D[c.dir].entries
    THEN LET e == D[c.dir].entries[c.name]
         IN [present |-> TRUE, ino |-> e.ino, isDir |-> e.isDir, hash |-> e.hash,
             data |-> IF e.ino \in DOMAIN F THEN F[e.ino] ELSE ""]
    ELSE [present |-> FALSE, ino |-> 0, isDir |-> FALSE, hash |-> "", data |-> ""]

\* The step is one of TreeInode::checkout, in a checkout of the given mode.
checkoutStep(mode) ==
  /\ ck.stage = "inodeCheckout"
  /\ ck.mode = mode
  /\ ck' # ck

dryRunStep ==
  /\ ck.stage # "idle"
  /\ ck.mode = "DryRun"
  /\ ck' # ck

\* The step leaves alone the entries (name, inode number, type, hash) and the
\* treeHash of every TreeInode, the contents of the Overlay's files, the
\* working copy parent and the journal.
keepsWorkingCopy ==
  /\ \A i \in DOMAIN dirs \cap DOMAIN dirs' :
       /\ dirs'[i].treeHash = dirs[i].treeHash
       /\ DOMAIN dirs'[i].entries = DOMAIN dirs[i].entries
       /\ \A n \in DOMAIN dirs[i].entries :
            saved(dirs'[i].entries[n]) = saved(dirs[i].entries[n])
  /\ ovFiles' = ovFiles
  /\ workingCopyParentRootId' = workingCopyParentRootId
  /\ checkedOutRootId' = checkedOutRootId
  /\ journal' = journal

\* C12 as the specification words it: a DryRun checkout writes no change:
\* every TreeInode's entries and treeHash, the Overlay contents, the working
\* copy parent and the journal are after each of its steps what they were
\* before.
C12_DryRunWritesNothing ==
  [][dryRunStep => keepsWorkingCopy /\ overlay' = overlay]_vars

\* C12: a DryRun checkout changes no TreeInode's entries or treeHash, no
\* Overlay file, no directory data the Overlay has, neither the working copy
\* parent nor the journal; the directories it loads to report their conflicts
\* get inode numbers for their entries, which the Overlay saves.
C12_DryRunKeepsWorkingCopy ==
  [][dryRunStep =>
       /\ keepsWorkingCopy
       /\ \A i \in DOMAIN overlay : i \in DOMAIN overlay' /\ overlay'[i] = overlay[i]]_vars

\* A dry run is over that reported a conflict inside a directory below the
\* root, which is loaded and whose entries the Overlay has; the root, the
\* parent and the journal are what they were at first.
C12_Witness ==
  /\ ck.stage = "journal"
  /\ ck.mode = "DryRun"
  /\ \E c \in conflicts :
       /\ c.type = "MODIFIED_MODIFIED"
       /\ c.dir # RootIno
       /\ c.dir \in DOMAIN dirs \cap DOMAIN overlay
  /\ dirs[RootIno].treeHash = "R1"
  /\ workingCopyParentRootId = ck.from
  /\ \A k \in 1..Len(journal) : journal[k].kind = "HashUpdate"

\* The user changed the contents of file n of directory T: the file is
\* materialized and its contents are not those of the blob `from` has for it.
userChanged(T, from, n) ==
  /\ n \in DOMAIN dirs[T].entries
  /\ ~dirs[T].entries[n].isDir
  /\ isMaterialized(dirs[T].entries[n])
  /\ scmEntry(from, n).hash # NoHash
  /\ fileData(dirs[T].entries[n]) # scmEntry(from, n).hash

\* C13 (scenario S2): a Normal checkout to a commit whose file `a` is the one
\* of the commit checked out, begun after the user changed the contents of
\* `a`, reports MODIFIED_MODIFIED for `a` (computeCheckoutActions of the root
\* records it, or makes the CheckoutAction that will), leaves the entry and
\* the contents of `a` alone, and makes the target the working copy parent.
C13_ModifiedFileConflict ==
  [][/\ (computeStep /\ ck.mode = "Normal" /\ top.ino = RootIno
           /\ top.to # top.from
           /\ scmEntry(top.to, "a") = scmEntry(top.from, "a")
           /\ userChanged(RootIno, top.from, "a"))
        => /\ \/ [type |-> "MODIFIED_MODIFIED", dir |-> RootIno, name |-> "a"] \in conflicts'
              \/ "a" \in ck'.frames[1].pending
           /\ dirs'[RootIno].entries["a"] = dirs[RootIno].entries["a"]
           /\ ovFiles' = ovFiles
     /\ (ck.stage = "finish" /\ ck.mode = "Normal" /\ ck' # ck)
        => workingCopyParentRootId' = ck.to]_vars

\* The step is the CheckoutAction for the file `n` of the innermost
\* directory, which runs to its end without an error.
actionRuns(n) ==
  /\ ck.stage = "inodeCheckout"
  /\ top.stage = "actions"
  /\ n \in top.pending
  /\ ck'.stage = "inodeCheckout"
  /\ Len(ck'.frames) = Len(ck.frames)
  /\ n \notin ck'.frames[Len(ck.frames)].pending
  /\ n \notin ck'.frames[Len(ck.frames)].failed

\* The destination Tree of the innermost directory has the name n, the Tree
\* it comes from has not, and the directory has an entry of that name.
untracked(n) ==
  /\ scmEntry(top.from, n).hash = NoHash
  /\ scmEntry(top.to, n).hash # NoHash
  /\ n \in DOMAIN dirs[top.ino].entries

\* The step records UNTRACKED_ADDED for n and, when the checkout is forced,
\* puts the target's entry in the place of the entry, which it leaves alone
\* (inode number, type, hash and contents) when not.
untrackedSettled(n) ==
  LET c == [type |-> "UNTRACKED_ADDED", dir |-> top.ino, name |-> n]
  IN /\ c \in conflicts'
     /\ IF ck.mode = "Force"
          THEN /\ n \in DOMAIN dirs'[top.ino].entries
               /\ dirs'[top.ino].entries[n].hash = scmEntry(top.to, n).hash
               /\ dirs'[top.ino].entries[n].isDir = scmEntry(top.to, n).isDir
               /\ dirs'[top.ino].entries[n].ino # dirs[top.ino].entries[n].ino
          ELSE entryAt(dirs', ovFiles', c) = entryAt(dirs, ovFiles, c)

C14_WitnessForce ==
  /\ ck.stage = "ensure"
  /\ ck.mode = "Force"
  /\ [type |-> "UNTRACKED_ADDED", dir |-> RootIno, name |-> "b"] \in conflicts
  /\ "b" \in DOMAIN dirs[RootIno].entries
  /\ dirs[RootIno].entries["b"].hash = scmEntry(ck.to, "b").hash

\* The Tree the innermost directory comes from has the name n, its
\* destination Tree has not, and neither has the directory.
missingRemoved(n) ==
  /\ scmEntry(top.from, n).hash # NoHash
  /\ scmEntry(top.to, n).hash = NoHash
  /\ n \notin DOMAIN dirs[top.ino].entries

\* The step changes nothing at the name n of the innermost directory.
nothingAt(n) ==
  /\ n \notin DOMAIN dirs'[top.ino].entries
  /\ n \notin ck'.frames[Len(ck.frames)].pending

writtenBack(n) ==
  /\ n \in DOMAIN dirs[top.ino].entries
  /\ ~dirs[top.ino].entries[n].isDir
  /\ isMaterialized(dirs[top.ino].entries[n])
  /\ scmEntry(top.from, n).hash # NoHash
  /\ scmEntry(top.to, n) = scmEntry(top.from, n)
  /\ fileData(dirs[top.ino].entries[n]) = scmEntry(top.from, n).hash

\* The entries of the innermost directory are those of its destination Tree,
\* none of them materialized.
entriesAtDestination ==
  /\ top.to # NoHash
  /\ scmOf(dirs[top.ino].entries) = getTree(top.to)

\* The step is the childDematerialized call that follows the
\* dematerialization of the innermost directory.
tellsDematerialized ==
  /\ ck.stage = "inodeCheckout"
  /\ top.stage = "notify"
  /\ top.demat # NoHash
  /\ top.call.p # 0
  /\ ck' # ck

actionFails(n) ==
  /\ ck.stage = "inodeCheckout"
  /\ top.stage = "actions"
  /\ n \in top.pending
  /\ ck'.stage = "inodeCheckout"
  /\ Len(ck'.frames) = Len(ck.frames)
  /\ n \in ck'.frames[Len(ck.frames)].failed

\* The step is what TreeInode::checkout does for the innermost directory
\* once its actions are over, one of them at least having failed.
postStepAfterFailure ==
  /\ ck.stage = "inodeCheckout"
  /\ top.stage = "actions"
  /\ top.pending = {}
  /\ top.failed # {}
  /\ ck' # ck

\* C17: the failure of one entry's CheckoutAction does not abort the
\* checkout: the step changes nothing and leaves the actions of the siblings
\* pending; once they are over the error of each failed action is recorded,
\* and the directory is reconciled as ever (saved in the Overlay unless it is
\* a dry run); and what is recorded stays recorded until the checkout hands
\* its results, conflicts and errors, to the caller.
C17_ActionErrorRecorded ==
  [][/\ \A n \in Names : actionFails(n) =>
          /\ ck'.frames[Len(ck.frames)].pending = top.pending \ {n}
          /\ ck'.frames[Len(ck.frames)].stage = "actions"
          /\ dirs' = dirs
          /\ conflicts' = conflicts
     /\ postStepAfterFailure =>
          /\ \A n \in top.failed :
               [type |-> "ERROR", dir |-> top.ino, name |-> n] \in conflicts'
          /\ ck.mode # "DryRun" =>
               /\ top.ino \in DOMAIN overlay'
               /\ overlay'[top.ino] =
                    [n \in DOMAIN dirs[top.ino].entries |-> saved(dirs[top.ino].entries[n])]
               /\ dirs'[top.ino].treeHash = tryToDematerialize(dirs[top.ino].entries, top.to)
     /\ (ck.stage \in {"inodeCheckout", "finish", "ensure"} /\ ck' # ck) =>
          /\ conflicts \subseteq conflicts'
          /\ ck'.stage # "idle"]_vars

\* A checkout is over and hands to its caller the error of one action of a
\* directory next to the conflict the action of a sibling recorded.
C17_Witness ==
  /\ ck.stage = "journal"
  /\ \E c \in conflicts, e \in conflicts :
       /\ e.type = "ERROR"
       /\ c.type \in {"MODIFIED_MODIFIED", "UNTRACKED_ADDED"}
       /\ c.dir = e.dir
       /\ e.dir \in DOMAIN overlay

\* C18: a checkout records its journal entry only when every invalidation
\* that was queued for the channel has been sent to the kernel.
C18_JournalAfterFlush ==
  [][(ck.stage = "journal" /\ journal' # journal) => channel = {}]_vars

\* A checkout that changed entries is about to write its journal entry: the
\* invalidations it had queued were flushed, for an entry and for the
\* listing of a directory, and none is queued.
C18_Witness ==
  /\ ck.stage = "journal"
  /\ ck.mode # "DryRun"
  /\ channel = {}
  /\ \E i \in ck.flushed : i.name # ""
  /\ \E i \in ck.flushed : i.name = ""

\* The stages of EdenMount::checkout between the setting of the flag and the
\* end of the ensure block.
CheckoutStages == {"context", "getRoots", "start", "inodeCheckout", "finish", "ensure"}

\* C19: every checkout that sets checkoutInProgress clears it, on success and
\* on every failure path: the flag is set only while the checkout that set
\* it is running, so none that has ended makes a later checkout or
\* resetParent fail with CHECKOUT_IN_PROGRESS.
C19_FlagClearedWhenEnded ==
  checkoutInProgress => \E c \in Clients : mpc[c] \in CheckoutStages

\* The step is one of a Normal checkout of the commit that is already the
\* working copy parent: checkout(X) after checkout(X).
sameCommitStep ==
  /\ ck.stage # "idle"
  /\ ck.mode = "Normal"
  /\ ck.from = ck.to
  /\ ck' # ck

\* The step leaves every TreeInode's entries with their names, inode numbers
\* and types, every file's hash, and the contents of the Overlay's files.
keepsEntries ==
  /\ \A i \in DOMAIN dirs \cap DOMAIN dirs' :
       /\ DOMAIN dirs'[i].entries = DOMAIN dirs[i].entries
       /\ \A n \in DOMAIN dirs[i].entries :
            LET e == dirs[i].entries[n]
                f == dirs'[i].entries[n]
            IN /\ f.ino = e.ino
               /\ f.isDir = e.isDir
               /\ ~e.isDir => f.hash = e.hash
  /\ ovFiles' = ovFiles

\* C20: checkout(X) followed by checkout(X) in Normal mode: no step of the
\* second checkout records a conflict, changes an entry or a file of the
\* working copy, or appends a record to the journal.
C20_SecondCheckoutNoOp ==
  [][sameCommitStep =>
       /\ conflicts' = {}
       /\ keepsEntries
       /\ journal' = journal]_vars

(***************************************************************************)
(* Claims about the diff                                                   *)
(***************************************************************************)

\* The contents of a directory entry as the working copy shows them: the
\* entries of its loaded TreeInode, else those the Overlay has.
entriesOf(e) ==
  IF e.ino \in DOMAIN dirs THEN dirs[e.ino].entries
  ELSE IF e.ino \in DOMAIN overlay THEN overlay[e.ino]
  ELSE <<>>

\* Entry e is the file of source control entry s, with the blob's contents.
sameFile(e, s) == ~e.isDir /\ ~s.isDir /\ fileData(e) = s.hash

\* Entry e is the directory of source control entry s, holding its files.
sameDir(e, s) ==
  /\ e.isDir
  /\ s.isDir
  /\ IF ~isMaterialized(e) /\ e.ino \notin DOMAIN dirs THEN e.hash = s.hash
     ELSE /\ DOMAIN entriesOf(e) = DOMAIN getTree(s.hash)
          /\ \A n \in DOMAIN getTree(s.hash) :
               sameFile(entriesOf(e)[n], getTree(s.hash)[n])

\* The working copy holds what commit X holds: the same names, types and
\* file contents, whatever is loaded or materialized.
workingCopyIs(X) ==
  /\ DOMAIN dirs[RootIno].entries = DOMAIN getTree(X)
  /\ \A n \in DOMAIN getTree(X) :
       LET e == dirs[RootIno].entries[n]
           s == getTree(X)[n]
       IN IF s.isDir THEN sameDir(e, s) ELSE sameFile(e, s)

treesFor(T) == IF T = RootIno THEN RootIds ELSE TreeIds \ RootIds

C23_NoCallbackAfterCancel ==
  [][df.cancelled => (callbacks' \subseteq callbacks /\ df'.res # "error")]_vars

\* The step ends the TreeInode::diff call on top: its Future completes.
diffFrameEnds ==
  /\ df.stage = "run"
  /\ dfTop.stage = "jobs"
  /\ \/ df'.stage = "done"
     \/ df'.stage = "run" /\ Len(df'.frames) < Len(df.frames)

\* The step is the failure of a queued child diff of the call on top.
diffJobFails ==
  /\ df.stage = "run"
  /\ df'.stage = "run"
  /\ Len(df'.frames) = Len(df.frames)
  /\ df'.frames[Len(df.frames)].failed # dfTop.failed

\* C24: the failure of one child diff does not abort its siblings, which
\* stay queued and all complete before the call ends; when the call ends the
\* error callback is made for the path of each child that failed, and the
\* call, and so the diff, ends with success.
C24_ChildFailureIsReported ==
  [][/\ diffJobFails =>
          \E j \in dfTop.jobs :
            /\ df'.frames[Len(df.frames)].jobs = dfTop.jobs \ {j}
            /\ df'.frames[Len(df.frames)].failed =
                 dfTop.failed \cup {Append(dfTop.path, j.name)}
            /\ callbacks' = callbacks
     /\ diffFrameEnds =>
          /\ dfTop.jobs = {}
          /\ \A p \in dfTop.failed : callback("error", p) \in callbacks'
          /\ df'.res # "error"]_vars

\* A diff that was not cancelled is over with success: the child diff of
\* directory d failed and was reported as an error, and the child diff of
\* its sibling a ran and reported the file modified.
C24_Witness ==
  /\ df.stage = "done"
  /\ df.res = "ok"
  /\ ~df.cancelled
  /\ callback("error", <<"d">>) \in callbacks
  /\ callback("modified", <<"a">>) \in callbacks

(***************************************************************************)
(* Claims about locks                                                      *)
(***************************************************************************)

\* The place of a lock in the order: the rename lock, the contents locks,
\* the InodeMap's lock.
lockRank(l) ==
  CASE l.kind = "rename" -> 0
    [] l.kind = "contents" -> 1
    [] OTHER -> 2

\* Of the locks thread t holds, none was acquired after one that comes
\* later in the order, and no TreeInode's after a descendant's.
inOrder(t) ==
  \A j \in 1..Len(held[t]), k \in 1..Len(held[t]) :
    j < k =>
      /\ lockRank(held[t][j]) <= lockRank(held[t][k])
      /\ ( /\ held[t][j].kind = "contents"
           /\ held[t][k].kind = "contents"
           /\ held[t][j].ino \in DOMAIN itree
           /\ held[t][k].ino \in DOMAIN itree )
         => ~isAncestor(held[t][k].ino, held[t][j].ino)

\* Thread t waits for inode loads to finish.
awaitsLoad(t) == at(t, "await") /\ lop[t].loads # {}

\* C25: every thread acquires its locks in the order rename lock, contents
\* locks (an ancestor before its descendant), InodeMap lock; and while a
\* thread waits for a load it holds the contents lock of no TreeInode below
\* the root.
C25_LockOrder ==
  \A t \in LockThreads :
    /\ inOrder(t)
    /\ awaitsLoad(t) =>
         \A k \in 1..Len(held[t]) :
            held[t][k].kind = "contents" => held[t][k].ino = RootIno

\* A rename from / into /d over the loaded directory /d/d holds all four
\* locks.
C25_Witness ==
  /\ lop[FsThread].kind = "rename"
  /\ lop[FsThread].src = 1
  /\ held[FsThread] = <<RenameLock, wlock(1), wlock(2), wlock(3)>>

\* TreeRenameLocks::acquireLocks has returned in thread t.
locksAcquired(t) == lop[t].kind = "rename" /\ at(t, "rename")

\* The destination child of the rename of thread t, when that is a
\* directory (0 when it is not).
destChildDir(t) ==
  LET D == itree[lop[t].dest].entries
      n == lop[t].destName
  IN IF n \in DOMAIN D /\ D[n].isDir THEN D[n].ino ELSE 0

destChildLoaded(t) ==
  /\ destChildDir(t) # 0
  /\ itree[lop[t].dest].entries[lop[t].destName].loaded

\* The TreeInodes whose contents locks thread t holds, in the order it
\* acquired them.
RECURSIVE contentsOf(_)
contentsOf(s) ==
  IF s = <<>> THEN <<>>
  ELSE (IF Head(s).kind = "contents" THEN <<Head(s).ino>> ELSE <<>>)
       \o contentsOf(Tail(s))

\* The sequence as stated: the source directory, then the destination
\* directory (the ancestor first if one contains the other), then the
\* destination child if it is a directory.
statedSequence(t) ==
  LET src == lop[t].src
      dest == lop[t].dest
  IN (IF src = dest THEN <<src>>
      ELSE IF isAncestor(dest, src) THEN <<dest, src>>
      ELSE <<src, dest>>)
     \o (IF destChildDir(t) # 0 THEN <<destChildDir(t)>> ELSE <<>>)

C26_StatedSequence ==
  \A t \in LockThreads :
    locksAcquired(t) =>
      /\ Head(held[t]) = RenameLock
      /\ contentsOf(held[t]) = statedSequence(t)

\* The sequence acquireLocks documents: the destination child is locked
\* only when it is a loaded directory, right after the destination
\* directory; the source directory comes first only when it is the
\* destination or an ancestor of it, and last otherwise (not at all when
\* it is the destination child).
documentedSequence(t) ==
  LET src == lop[t].src
      dest == lop[t].dest
      child == IF destChildLoaded(t) THEN <<destChildDir(t)>> ELSE <<>>
  IN IF src = dest THEN <<src>> \o child
     ELSE IF isAncestor(src, dest) THEN <<src, dest>> \o child
     ELSE <<dest>> \o child \o (IF child = <<src>> THEN <<>> ELSE <<src>>)

\* C26: a rename takes the rename lock first and then, through
\* TreeRenameLocks, the contents locks in this sequence: the source
\* directory first when it is the destination directory or an ancestor of
\* it; the destination directory; the destination child when it is a
\* loaded directory; and in all other cases the source directory last.
C26_RenameLockSequence ==
  \A t \in LockThreads :
    locksAcquired(t) =>
      /\ Head(held[t]) = RenameLock
      /\ contentsOf(held[t]) = documentedSequence(t)

\* A rename from /d/d into / over the loaded directory /d: the destination
\* and its child are locked before the source.
C26_Witness ==
  /\ locksAcquired(FsThread)
  /\ lop[FsThread].src = 3
  /\ lop[FsThread].dest = 1
  /\ held[FsThread] = <<RenameLock, wlock(1), wlock(2), wlock(3)>>

\* Where every inode is: the parent and name of each TreeInode, and the
\* inode number under each name of each directory.
locations ==
  [i \in DOMAIN itree |->
     [parent |-> itree[i].parent, name |-> itree[i].name,
      inos |-> [n \in DOMAIN itree[i].entries |-> itree[i].entries[n].ino]]]

holdsRenameLock(t) == \E k \in 1..Len(held[t]) : held[t][k].kind = "rename"

renameLockMode(t, mode) ==
  \A k \in 1..Len(held[t]) : held[t][k].kind = "rename" => held[t][k].mode = mode

\* No step of another thread moves an inode while a thread holds the
\* rename lock.
pathsStable ==
  \A t \in LockThreads :
    (holdsRenameLock(t) /\ lop'[t] = lop[t]) => locations' = locations

holdsContents(t) == \E k \in 1..Len(held[t]) : held[t][k].kind = "contents"

\* C28: the checkout of TreeInode T makes its plan with T's contents lock
\* held, and holds no contents lock while it waits for the loads it started
\* and when it runs the actions.
C28_NoContentsLockAcrossWait ==
  \A t \in LockThreads :
    lop[t].kind = "checkout" =>
      /\ at(t, "plan") => holds(t, wlock(Head(lop[t].stack).ino))
      /\ (at(t, "await") \/ at(t, "actions")) => ~holdsContents(t)

\* The checkout waits for two loads in /d.
C28_Witness ==
  /\ lop[CheckoutThread].kind = "checkout"
  /\ at(CheckoutThread, "await")
  /\ Head(lop[CheckoutThread].stack).ino = 2
  /\ Cardinality(lop[CheckoutThread].loads) = 2
  /\ held[CheckoutThread] = <<RenameLock>>


(***************************************************************************)
(* Claims about readdir                                                    *)
(***************************************************************************)

\* How many times the stream has returned the entry (name, ino).
timesReturned(name, ino) ==
  Cardinality({k \in 1..Len(rd.ret) :
                 rd.ret[k].name = name /\ rd.ret[k].ino = ino})

\* No entry that has been in the directory since the stream was opened,
\* nor "." or "..", has been returned twice, and at the end of the stream
\* each of them has been returned exactly once.
exactlyOnce ==
  /\ \A e \in rd.stable : timesReturned(e[1], e[2]) <= 1
  /\ timesReturned(".", RootIno) <= 1
  /\ timesReturned("..", RootIno) <= 1
  /\ rd.eof =>
       /\ \A e \in rd.stable : timesReturned(e[1], e[2]) = 1
       /\ timesReturned(".", RootIno) = 1
       /\ timesReturned("..", RootIno) = 1

\* C29: across the readdir calls of one stream, each resuming from the
\* offset of the last entry returned, every entry that is in the directory
\* from the opening of the stream to its end is returned exactly once,
\* whatever was inserted or removed in between.
C29_ReaddirExactlyOnce == exactlyOnce

\* The same for the streams read through fuseReaddir alone, and no entry
\* returned twice on any stream.
fuseExactlyOnce == ~rd.nfs => exactlyOnce
neverTwice == \A k, l \in 1..Len(rd.ret) : k < l => rd.ret[k].offset < rd.ret[l].offset

(***************************************************************************)
(* Claims about getOrFindChild                                             *)
(***************************************************************************)

\* The entry `name` of TreeInode p exists, has no inode loaded and is not
\* materialized.
unloadedUnmaterialized(p, name) ==
  /\ p \in DOMAIN dirs
  /\ name \in DOMAIN dirs[p].entries
  /\ ~dirs[p].entries[name].loaded
  /\ ~isMaterialized(dirs[p].entries[name])

\* A getOrFindChild call with loadInodes false on an entry that is unloaded
\* and unmaterialized when the call is made.
findsWithoutLoading ==
  /\ found'.calls = found.calls + 1
  /\ ~found'.loadInodes
  /\ unloadedUnmaterialized(found'.dir, found'.name)

\* C30: a getOrFindChild call that allows non-inode results, on an entry
\* that is unloaded and unmaterialized, answers with a Tree or a blob entry
\* from the ObjectStore and allocates no inode: it starts no load in the
\* InodeMap, allocates no inode number, leaves the entry unloaded (the
\* TreeInodes are as they were) and writes nothing to the Overlay.
C30_FindWithoutInode ==
  [][findsWithoutLoading =>
       /\ found'.kind \in {"tree", "entry"}
       /\ found'.loads = found.loads
       /\ dirs' = dirs
       /\ nextIno' = nextIno
       /\ overlay' = overlay
       /\ ovFiles' = ovFiles]_vars

\* After a call that loaded an inode, a call that allows non-inode results
\* has answered with the Tree of a directory entry that is still unloaded
\* and unmaterialized.
C30_Witness ==
  /\ found.calls = 2
  /\ found.loads = 1
  /\ found.kind = "tree"
  /\ ~found.loadInodes
  /\ unloadedUnmaterialized(found.dir, found.name)
  /\ dirs[found.dir].entries[found.name].isDir

\* An nfsReaddir call: the step of an NFS stream that is no insertion and
\* no removal.
nfsReaddirStep == rd.open /\ rd.nfs /\ ~rd.eof /\ rd'.mods = rd.mods /\ rd' # rd

\* C40: when nfsReaddir reports isEof = true, every entry whose offset is
\* greater than the requested offset is in the list the call returned.
C40_EofOnlyWhenComplete ==
  [][(nfsReaddirStep /\ rd'.eof) =>
       \A n \in DOMAIN rdir :
         rdir[n] + 2 > rd.off =>
           \E k \in (Len(rd.ret) + 1)..Len(rd'.ret) :
             rd'.ret[k].name = n /\ rd'.ret[k].ino = rdir[n]]_vars

(***************************************************************************)
(* Claims about inode numbers                                              *)
(***************************************************************************)

\* The DirEntries of the loaded TreeInodes D, as (parent, name, number).
dirEntriesOf(D) ==
  UNION {{<<p, n, D[p].entries[n].ino>> : n \in DOMAIN D[p].entries} :
           p \in DOMAIN D}
numbersOf(D) == {e[3] : e \in dirEntriesOf(D)}

\* The inode numbers of the entries saved in the Overlay directories O.
savedNumbersOf(O) == UNION {{O[p][n].ino : n \in DOMAIN O[p]} : p \in DOMAIN O}

\* No two DirEntries carry the same number, and none carries the root's.
uniqueNumbers ==
  /\ \A e, f \in dirEntriesOf(dirs) : e[3] = f[3] => e = f
  /\ RootIno \notin numbersOf(dirs)

\* Every number in use is below the next number the Overlay hands out.
allocatedBelow ==
  \A i \in numbersOf(dirs) \cup savedNumbersOf(overlay) \cup DOMAIN dirs
           \cup DOMAIN overlay \cup DOMAIN ovFiles : i < nextIno

\* The Overlay's counter never goes back, and a number that no entry carried
\* before the step, in a TreeInode or saved in the Overlay, was handed out
\* by the counter in this step.
freshOnly ==
  /\ nextIno' >= nextIno
  /\ \A i \in numbersOf(dirs') \ (numbersOf(dirs) \cup savedNumbersOf(overlay)) :
       nextIno <= i /\ i < nextIno'

\* C31: inode numbers are unique and never reused: at no time do two
\* DirEntries carry the same number, every number in use is below the
\* Overlay's counter, and every step gives a new entry a number from the
\* counter, which only grows; so a number whose entry was removed or
\* replaced by unlink, rmdir, rename or checkout is never assigned again.
C31_UniqueInodeNumbers ==
  /\ [](uniqueNumbers /\ allocatedBelow)
  /\ [][freshOnly]_vars

\* An entry the mount started with has been removed or replaced, and an
\* entry carries a number handed out since.
C31_Witness ==
  /\ \E i \in (RootIno + 1)..3 : i \notin numbersOf(dirs)
  /\ \E j \in numbersOf(dirs) : j > 3

(***************************************************************************)
(* Claims about the channel                                                *)
(***************************************************************************)

\* Caller c has called unmount().
unmountCalled(c) == um[c].pc # "idle"

\* C32: unmount() is idempotent: the futures of any two calls complete at
\* the same time and with the same result, so a later call's future is
\* complete whenever the original call's is.
C32_UnmountIdempotent ==
  \A c, d \in Unmounters :
    (unmountCalled(c) /\ unmountCalled(d)) => unmountFuture(c) = unmountFuture(d)

\* unmount() was called before startChannel() or takeoverFuse(): a caller
\* found no mount started.
unmountedBeforeStart == \E c \in Unmounters : um[c].early

\* C33: when unmount() is called before startChannel() or takeoverFuse(),
\* it finishes successfully without a call of umount(2), and a later
\* startChannel() or takeoverFuse() on the initialized mount makes no
\* attempt to mount and fails with EdenMountCancelled.
C33_UnmountBeforeStart ==
  unmountedBeforeStart =>
    /\ \A c \in Unmounters : um[c].early => unmountFuture(c) = "value"
    /\ kernel = [mounted |-> FALSE, mounts |-> 0, umounts |-> 0]
    /\ sc.pc \in {"idle", "done"}
    /\ (sc.pc = "done" /\ sc.from = "INITIALIZED") => sc.res = "EdenMountCancelled"
    /\ (sc.pc = "done" /\ sc.from # "INITIALIZED") => sc.res = "runtime_error"

\* startChannel() or takeoverFuse() has failed with EdenMountCancelled after
\* an unmount() that came first.
C33_Witness ==
  /\ unmountedBeforeStart
  /\ um[1] = [pc |-> "done", res |-> "value", early |-> TRUE]
  /\ sc.pc = "done"
  /\ sc.res = "EdenMountCancelled"
  /\ mountState = "FUSE_ERROR"

\* The results of startChannel() that say the mount itself, the creation of
\* the NFS channel, or the unmount of the rollback failed.
mountFailures == {"mountError", "channelError", "unmountError"}

\* C34: when unmount() is called while startChannel() is in progress, and
\* mounting does not fail by itself, the future of startChannel() is
\* fulfilled with FuseDeviceUnmountedDuringInitialization and the file
\* system is unmounted by then.
C34_UnmountDuringStart ==
  (sc.cancelled /\ sc.pc = "done" /\ sc.res \notin mountFailures) =>
    /\ sc.res = "FuseDeviceUnmountedDuringInitialization"
    /\ ~kernel.mounted

\* No mount attempt is in progress: none was made, or it has ended.
mountAttemptEnded == sc.pc \in {"idle", "done"}

\* C38: the future of every unmount() call completes once the mount attempt
\* that runs beside it, if any, has ended, however that attempt ended.
C38_UnmountCompletes ==
  \A c \in Unmounters :
    (unmountCalled(c) /\ mountAttemptEnded) ~> (unmountFuture(c) # "pending")

\* The step in which the startChannel() or takeoverFuse() call ends, with
\* success or with an error.
channelStartOutcome == sc.pc # "done" /\ sc'.pc = "done"

ShutdownStates == {"SHUTTING_DOWN", "SHUT_DOWN", "DESTROYING"}

\* C39: the mount state becomes RUNNING or FUSE_ERROR only from STARTING
\* (which the call itself entered from INITIALIZED), and the outcome of a
\* channel start that arrives when shutdown() or destroy() has moved the
\* state to SHUTTING_DOWN, SHUT_DOWN or DESTROYING leaves the state as it is.
C39_StartOutcomeKeepsState ==
  [][/\ (mountState' # mountState /\ mountState' \in {"RUNNING", "FUSE_ERROR"}) =>
          \/ mountState = "STARTING"
          \/ mountState = "INITIALIZED" /\ sc.pc = "idle" /\ channelStartOutcome
     /\ (channelStartOutcome /\ mountState \in ShutdownStates) =>
          mountState' = mountState]_vars

\* A channel start that was begun on the initialized mount has ended,
\* successfully initialized or not, after shutdown() or destroy() took the
\* state away from STARTING.
C39_Witness ==
  /\ sc.pc = "done"
  /\ sc.from = "INITIALIZED"
  /\ sc.res \in {"runtime_error", "initError", "mountError"}
  /\ mountState \in ShutdownStates

(***************************************************************************)
(* Claims about the removal of a directory                                 *)
(***************************************************************************)

\* At the return of checkPreRemove inside tryRemoveChild the directory is
\* empty: the check itself is sound at the time it is made.
emptyWhenChecked ==
  [][(rmv.pc = "tryRemove" /\ rmv'.pc = "checked") => rmDir.entries = {}]_vars

\* A create whose checks run after the directory was unlinked fails.
createAfterUnlinkFails ==
  [][\A c \in Creators :
       (crt[c].pc = "locked" /\ crt'[c].pc # "locked" /\ rmDir.unlinked) =>
         crt'[c].res \in {"ENOENT", "EEXIST"}]_vars

\* C35: a directory that was unlinked by rmdir, by checkout or by recursive
\* removal has no entries: it had none at the instant it was unlinked and
\* no create or mkdir into it completed afterwards.
C35_UnlinkedDirectoryEmpty == rmDir.unlinked => rmDir.entries = {}

(***************************************************************************)
(* Claims about entries whose load is in flight                            *)
(***************************************************************************)

\* The names whose load has started and has not yet reached
\* inodeLoadComplete or inodeLoadFailed.
loadsInFlight == {f.name : f \in futures}

\* C36: the entry of a load in flight stays in the parent's entries map
\* with its inode number until the load finishes.
C36_EntryKeptWhileLoading ==
  \A f \in futures :
    /\ f.name \in DOMAIN lentries
    /\ lentries[f.name].ino = f.ino

\* Every Loading entry of the InodeMap belongs to a load whose completion
\* is registered: its future will run inodeLoadComplete or inodeLoadFailed.
loadsRegistered == \A ino \in DOMAIN loading : \E f \in futures : f.ino = ino

\* The inode numbers of the entries of LoadInit.
LoadInos == {2, 3, 4}

\* C37: every load the InodeMap was told to start is reported back to it,
\* also when the caller threw with the contents lock held: every Loading
\* entry has its completion registered, every waiter gets an answer, and
\* every Loading entry goes away.
C37_LoadsReported ==
  /\ []loadsRegistered
  /\ \A t \in Threads : (lpc[t] = "waiting") ~> (lpc[t] = "idle")
  /\ \A e \in LoadInos :
       (e \in DOMAIN loading) ~> (e \notin DOMAIN loading)

\* A load started by a caller that threw with the contents lock held has
\* ended: the caller's promise has its answer and the Loading entry is gone.
C37_Witness ==
  \E t \in Threads :
    /\ lwait[t].threw
    /\ lpc[t] = "idle"
    /\ lres[t].kind \in {"inode", "error"}
    /\ lwait[t].ino \notin DOMAIN loading

====
